---------------------------- MODULE Spec2Model ----------------------------
(***************************************************************************)
(* Model of the Iterative Impact Analysis Engine of PRManger:              *)
(*   - the dependency-aware partitioner (src/agents/splitter_agent.py),    *)
(*   - one review session of the PR-review subgraph (src/core/workflow.py, *)
(*     src/agents/code_analyzer_agent.py,                                  *)
(*     src/agents/context_collector_agent.py).                             *)
(***************************************************************************)
EXTENDS Integers, Sequences, FiniteSets, TLC

VARIABLES
    \* ---- partitioner (_split_pr_by_modules) ----
    file_paths,         \* paths extracted from pr_files, in order
    file_diffs,         \* path -> that file's diff (a sequence of diff lines)
    dependency_groups,  \* result of _analyze_and_group_dependencies
    sub_prs,            \* the units returned by _split_pr_by_modules
    strategy,           \* which return statement produced sub_prs
    split_pc,           \* "ready" before the call, "done" after it
    \* ---- one session of the PR-review subgraph (PRReviewState) ----
    pr_diff,            \* the diff under review ("" when missing)
    pr_size,            \* size tier of the change
    cfg_max_iterations, \* pr_review.deep_analysis.max_iterations of the configuration
    node,               \* the node the subgraph runs next ("END" after the last one)
    current_stage,
    code_check_passed,
    changed_files,
    iteration_count,
    impact_chain,
    context_request,       \* <<>> is None, <<r>> is the request r
    context_response,      \* <<>> is None, <<r>> is the response r
    all_collected_context, \* symbol name -> its entry
    analysis_conclusion,   \* <<>> is absent, <<c>> is the conclusion c
    ast_cache,             \* the files whose syntax tree is cached
    final_decision,
    \* ---- what the session did (history, not read by the program) ----
    oracle_result,      \* what the last parse_json_with_retry returned (<<>> is None)
    oracle_calls,       \* calls of parse_json_with_retry by code_analyzer_node
    seedings,           \* calls of _extract_ast_context
    parsed_files,       \* files on which parse_file has run the grammar
    reparsed,           \* files on which it has run the grammar again
    gatherings,         \* requests fulfilled by context_collector_node
    search_log,         \* the (name, iteration) of every symbol search dispatched
    \* ---- one call of the snippet extraction of _extract_code_context ----
    lines,              \* the lines of the file (line i holds the text i)
    ast_nodes,          \* the nodes of the file's syntax tree, by line_number
    line_num,           \* the line of the match
    snippet,            \* <<>> before the call, <<s>> the snippet appended
    extract_pc,         \* "ready" before the call, "done" after it
    \* ---- the search results of one item in _ripgrep_ast_search ----
    search_size,        \* pr_size of the session that searches
    all_results,        \* the files with matches, in order, each with its matches
    limited_results,    \* <<>> before the call, the results kept after it
    dependency_entry,   \* <<>> before the call, <<e>> the entry stored
    limit_pc,           \* "ready" before the call, "done" after it
    \* ---- one call of FastFileSearcher.search or batch_search ----
    ripgrep_available,  \* what _check_ripgrep found at construction
    entry_point,        \* "search" or "batch_search"
    patterns,           \* the queries, each with what the engines do on it
    search_results,     \* <<>> before the call, one answer per query after it
    search_pc,          \* "ready" before the call, "done" after it
    \* ---- the threads of one call of batch_search ----
    futures,            \* where the search of each query stands
    batch_results,      \* results of batch_search: pattern_key -> answer
    pool_pc,            \* "running" during the call, "returned" after it
    \* ---- the file contents kept by one FastFileSearcher ----
    file_cache,         \* self.file_cache, in insertion order
    disk_version,       \* the content the files have on disk now
    files_read,         \* how many files have been read for the first time
    file_content,       \* the last return value of _get_file_content
    \* ---- the loop of sub_pr_processor_node ----
    unit_index,         \* i of the loop: the unit whose session runs or ran last
    sub_pr_results,     \* the results collected so far
    units_pc,           \* "between" sessions, "in_session", "returned"
    \* ---- one call of _find_enclosing_function ----
    lookup,             \* the arguments: the lines with a declaration, line_num
    function_name,      \* the value returned, <<>> before the call
    \* ---- the ConcurrencyManager and its threads ----
    task_queue,         \* self.task_queue: the tasks waiting, oldest first
    stats,              \* self.stats
    callers,            \* the threads that call submit_task: position and task
    processors,         \* the Queue_Processor threads: position and task
    tasks               \* every task handed to submit_task: what became of it

splitVars == <<file_paths, file_diffs, dependency_groups, sub_prs, strategy, split_pc>>

stateVars ==
    <<pr_diff, pr_size, cfg_max_iterations, node, current_stage, code_check_passed,
      changed_files, iteration_count, impact_chain, context_request, context_response,
      all_collected_context, analysis_conclusion, ast_cache, final_decision>>

historyVars ==
    <<oracle_result, oracle_calls, seedings, gatherings, search_log,
      parsed_files, reparsed>>

extractVars == <<lines, ast_nodes, line_num, snippet, extract_pc>>

limitVars == <<search_size, all_results, limited_results, dependency_entry, limit_pc>>

searcherVars == <<ripgrep_available, entry_point, patterns, search_results, search_pc>>

poolVars == <<futures, batch_results, pool_pc>>

cacheVars == <<file_cache, disk_version, files_read, file_content>>

unitVars == <<unit_index, sub_pr_results, units_pc>>

lookupVars == <<lookup, function_name>>

managerVars == <<task_queue, stats, callers, processors, tasks>>

serviceVars == <<poolVars, cacheVars, unitVars, lookupVars, managerVars>>

helperVars == <<extractVars, limitVars, searcherVars, serviceVars>>

vars == <<splitVars, stateVars, historyVars, helperVars>>

(***************************************************************************)
(* Bounds of the model.                                                    *)
(***************************************************************************)
MaxFiles == 5        \* changed files of a change drawn from DiffChoices
MaxGroupFiles == 6   \* changed files of a change drawn from GroupDiffChoices
MaxPermFiles == 3    \* up to this many files every set-iteration order is tried
MaxConfigIterations == 6  \* largest configured max_iterations

(***************************************************************************)
(* Program constants.                                                      *)
(***************************************************************************)
target_diff_size == 50000
chunk_size == 5
default_max_iterations == 6
code_analyzer_max_retries == 3

(***************************************************************************)
(* Generic sequence helpers.                                               *)
(***************************************************************************)
Range(s) == {s[i] : i \in DOMAIN s}

RECURSIVE SumSeq(_)
SumSeq(s) == IF s = <<>> THEN 0 ELSE Head(s) + SumSeq(Tail(s))

RECURSIVE Flatten(_)
Flatten(ss) == IF ss = <<>> THEN <<>> ELSE Head(ss) \o Flatten(Tail(ss))

Min2(a, b) == IF a < b THEN a ELSE b

Permutations1(n) ==
    {p \in [1..n -> 1..n] : \A i, j \in 1..n : i # j => p[i] # p[j]}

(***************************************************************************)
(* Diffs.  A diff line carries what the regular expressions of the         *)
(* partitioner look at: its sign, whether it has the shape of a            *)
(* declaration ("def") or merely mentions a name ("use"), the name, the    *)
(* declaration type, and its length in bytes.                              *)
(***************************************************************************)
DelDef(n, t) == [sign |-> "-", kind |-> "def", name |-> n, dtype |-> t, bytes |-> 20]
AddDef(n, t) == [sign |-> "+", kind |-> "def", name |-> n, dtype |-> t, bytes |-> 20]
AddUse(n)    == [sign |-> "+", kind |-> "use", name |-> n, dtype |-> "none", bytes |-> 12]
DelUse(n)    == [sign |-> "-", kind |-> "use", name |-> n, dtype |-> "none", bytes |-> 12]
Blob         == [sign |-> " ", kind |-> "text", name |-> "none", dtype |-> "none", bytes |-> 30000]

\* The diffs a changed file may have.  <<>> is a file without a section in the
\* diff text (file_diffs.get(f, '') returns the empty string for it).
DiffChoices ==
    { <<>>,
      << DelDef("f", "function") >>,
      << AddUse("f") >>,
      << AddDef("g", "class"), AddUse("f") >>,
      << AddUse("g"), DelUse("f"), Blob >>,
      << DelDef("g", "class") >> }

\* The diffs of the files of a larger change: each file deletes the
\* declaration of f or adds a use of it.
GroupDiffChoices ==
    { << DelDef("f", "function") >>,
      << AddUse("f") >> }

\* Paths are sequences of components; the pool fixes distinct paths.
PathPool ==
    << <<"src", "a.py">>, <<"lib", "b.py">>, <<"src", "c.py">>, <<"d.py">>,
       <<"lib", "e.py">>, <<"src", "f.py">>, <<"test", "g.py">>, <<"h.py">> >>

\* len(file_diffs.get(f, "").encode('utf-8'))
DiffBytes(diffs, f) == SumSeq([i \in DOMAIN diffs[f] |-> diffs[f][i].bytes])

(***************************************************************************)
(* _extract_changed_definitions_from_diff: the (name, type) pairs whose    *)
(* declaration is on a deleted or an added line (returned as list(set())). *)
(***************************************************************************)
ExtractChangedDefinitions(diff) ==
    { <<diff[i].name, diff[i].dtype>> :
        i \in {j \in DOMAIN diff : diff[j].kind = "def" /\ diff[j].sign \in {"+", "-"}} }

(***************************************************************************)
(* _has_reference_in_diff: some added line matches one of the patterns of  *)
(* the type; every pattern family contains \bname\b, so an added line      *)
(* matches exactly when it carries the name.                               *)
(***************************************************************************)
HasReferenceInDiff(diff, name, def_type) ==
    \E i \in DOMAIN diff :
        /\ diff[i].sign = "+"
        /\ diff[i].kind \in {"def", "use"}
        /\ diff[i].name = name

(***************************************************************************)
(* Union-Find of _analyze_and_group_dependencies (find with path           *)
(* compression, union attaching the root of x under the root of y).        *)
(***************************************************************************)
RECURSIVE FindRoot(_, _)
FindRoot(parent, x) == IF parent[x] = x THEN x ELSE FindRoot(parent, parent[x])

RECURSIVE PathToRoot(_, _)
PathToRoot(parent, x) ==
    IF parent[x] = x THEN {} ELSE {x} \cup PathToRoot(parent, parent[x])

\* find(x): every node on the path from x is re-parented to the root.
FindCompress(parent, x) ==
    LET r == FindRoot(parent, x)
        onPath == PathToRoot(parent, x)
    IN  [f \in DOMAIN parent |-> IF f \in onPath THEN r ELSE parent[f]]

\* A union that re-parents the file x itself instead of the root of its set.
UnionAttachingFile(parent, x, y) ==
    LET p1 == FindCompress(parent, x)
        px == FindRoot(p1, x)
        p2 == FindCompress(p1, y)
        py == FindRoot(p2, y)
    IN  IF px # py THEN [p2 EXCEPT ![x] = py] ELSE p2

Union(parent, x, y) ==
    LET p1 == FindCompress(parent, x)
        px == FindRoot(p1, x)
        p2 == FindCompress(p1, y)
        py == FindRoot(p2, y)
    IN  IF px # py THEN [p2 EXCEPT ![px] = py] ELSE p2

RECURSIVE UnionAll(_, _)
UnionAll(parent, edges) ==
    IF edges = <<>> THEN parent
    ELSE UnionAll(Union(parent, Head(edges)[1], Head(edges)[2]), Tail(edges))

\* The positions of the paths of set S in the sequence paths, ordered by ord:
\* list(deps) iterates a set of strings in an order the caller does not control.
RECURSIVE OrderedBy(_, _, _)
OrderedBy(S, paths, ord) ==
    IF S = {} THEN <<>>
    ELSE LET i == CHOOSE k \in DOMAIN paths :
                    /\ paths[k] \in S
                    /\ \A m \in DOMAIN paths : paths[m] \in S => ord[k] <= ord[m]
         IN  <<paths[i]>> \o OrderedBy(S \ {paths[i]}, paths, ord)

\* file_definitions: only the files with at least one changed definition.
FileDefinitions(paths, diffs) ==
    LET defs == [f \in Range(paths) |-> ExtractChangedDefinitions(diffs[f])]
    IN  [f \in {p \in Range(paths) : defs[p] # {}} |-> defs[f]]

\* deps of file_path: the other files one of whose changed definitions the
\* added lines of file_path reference.
DepsOf(f, fdefs, diffs) ==
    { o \in DOMAIN fdefs :
        /\ o # f
        /\ \E d \in fdefs[o] : HasReferenceInDiff(diffs[f], d[1], d[2]) }

\* The union(file_a, file_b) calls in the order the loops make them.
RECURSIVE UnionCalls(_, _, _, _, _)
UnionCalls(i, paths, fdefs, diffs, ord) ==
    IF i > Len(paths) THEN <<>>
    ELSE LET a == paths[i]
             bs == OrderedBy(DepsOf(a, fdefs, diffs), paths, ord)
         IN  [k \in DOMAIN bs |-> <<a, bs[k]>>]
                \o UnionCalls(i + 1, paths, fdefs, diffs, ord)

\* The groups in the order of their roots in file_paths.
GroupsInRootOrder(paths, parent) ==
    LET root == [f \in Range(paths) |-> FindRoot(parent, f)]
        roots == SelectSeq(paths, LAMBDA p : \E f \in Range(paths) : root[f] = p)
    IN  [i \in DOMAIN roots |-> SelectSeq(paths, LAMBDA p : root[p] = roots[i])]

\* groups_dict.values(): the files of each root in file_paths order, the
\* groups in the order of their first file.
GroupsDict(paths, parent) ==
    LET root == [f \in Range(paths) |-> FindRoot(parent, f)]
        firsts == SelectSeq(paths, LAMBDA p :
                     \A k \in DOMAIN paths :
                         (root[paths[k]] = root[p]) =>
                             (\E m \in DOMAIN paths : paths[m] = p /\ m <= k))
    IN  [i \in DOMAIN firsts |-> SelectSeq(paths, LAMBDA p : root[p] = root[firsts[i]])]

AnalyzeAndGroupDependencies(paths, diffs, ord) ==
    LET fdefs == FileDefinitions(paths, diffs)
    IN  IF DOMAIN fdefs = {} THEN <<>>
        ELSE LET parent0 == [f \in Range(paths) |-> f]
                 parent == UnionAll(parent0, UnionCalls(1, paths, fdefs, diffs, ord))
             IN  SelectSeq(GroupsDict(paths, parent), LAMBDA g : Len(g) > 1)

(***************************************************************************)
(* _group_independent_files_by_size: first fit over the files sorted by    *)
(* descending size (list.sort is stable).                                  *)
(***************************************************************************)
RECURSIVE InsertBySize(_, _, _)
InsertBySize(sorted, f, diffs) ==
    IF sorted = <<>> THEN <<f>>
    ELSE IF DiffBytes(diffs, Head(sorted)) >= DiffBytes(diffs, f)
         THEN <<Head(sorted)>> \o InsertBySize(Tail(sorted), f, diffs)
         ELSE <<f>> \o sorted

RECURSIVE SortBySizeDesc(_, _)
SortBySizeDesc(files, diffs) ==
    IF files = <<>> THEN <<>>
    ELSE InsertBySize(SortBySizeDesc(SubSeq(files, 1, Len(files) - 1), diffs),
                      files[Len(files)], diffs)

GroupBytes(group, diffs) == SumSeq([i \in DOMAIN group |-> DiffBytes(diffs, group[i])])

\* A placement into the last unit with room.
PlaceLastFit(groups, f, diffs, target_size) ==
    LET fits == {k \in DOMAIN groups :
                    GroupBytes(groups[k], diffs) + DiffBytes(diffs, f) <= target_size}
    IN  IF fits = {} THEN Append(groups, <<f>>)
        ELSE LET k == CHOOSE m \in fits : \A j \in fits : m >= j
             IN  [groups EXCEPT ![k] = Append(@, f)]

\* The file joins the first group with room, or opens a group.
PlaceFirstFit(groups, f, diffs, target_size) ==
    LET fits == {k \in DOMAIN groups :
                    GroupBytes(groups[k], diffs) + DiffBytes(diffs, f) <= target_size}
    IN  IF fits = {} THEN Append(groups, <<f>>)
        ELSE LET k == CHOOSE m \in fits : \A j \in fits : m <= j
             IN  [groups EXCEPT ![k] = Append(@, f)]

RECURSIVE FirstFit(_, _, _, _)
FirstFit(groups, files, diffs, target_size) ==
    IF files = <<>> THEN groups
    ELSE FirstFit(PlaceFirstFit(groups, Head(files), diffs, target_size),
                  Tail(files), diffs, target_size)

GroupIndependentFilesBySize(independent_files, diffs, target_size) ==
    FirstFit(<<>>, SortBySizeDesc(independent_files, diffs), diffs, target_size)

(***************************************************************************)
(* _split_by_dependency_groups: one unit per group of more than one file,  *)
(* then the single files merged into one unit or packed by size.           *)
(***************************************************************************)
DependencyUnit(group, diffs) ==
    [files |-> group,
     \* the group's diffs joined by "\n"
     diff_size |-> GroupBytes(group, diffs) + (Len(group) - 1),
     is_dependency_group |-> TRUE]

IndependentUnit(group, diffs, size) ==
    [files |-> group, diff_size |-> size, is_dependency_group |-> FALSE]

SplitByDependencyGroups(groups, diffs) ==
    LET dependency_groups_only == SelectSeq(groups, LAMBDA g : Len(g) > 1)
        independent_files == Flatten(SelectSeq(groups, LAMBDA g : Len(g) <= 1))
        dep_units == [i \in DOMAIN dependency_groups_only |->
                        DependencyUnit(dependency_groups_only[i], diffs)]
        total_independent_size == GroupBytes(independent_files, diffs)
        grouped_files ==
            GroupIndependentFilesBySize(independent_files, diffs, target_diff_size)
    IN  IF independent_files = <<>> THEN dep_units
        ELSE IF total_independent_size <= target_diff_size
             THEN Append(dep_units,
                         IndependentUnit(independent_files, diffs, total_independent_size))
             ELSE dep_units \o
                  [i \in DOMAIN grouped_files |->
                     IndependentUnit(grouped_files[i], diffs,
                         GroupBytes(grouped_files[i], diffs) + (Len(grouped_files[i]) - 1))]

(***************************************************************************)
(* _group_dependency_aware_by_directory: every group goes, whole, to the   *)
(* first directory holding most of its files.                              *)
(***************************************************************************)
TopDir(path) == IF Len(path) > 1 THEN path[1] ELSE "root_dir"

\* max(dir_counts, key=dir_counts.get): the first directory, in the order the
\* group's files introduce them, with the highest count.
MainDir(group) ==
    LET count(d) == Cardinality({i \in DOMAIN group : TopDir(group[i]) = d})
        firstAt(d) == CHOOSE i \in DOMAIN group :
                        /\ TopDir(group[i]) = d
                        /\ \A j \in DOMAIN group : TopDir(group[j]) = d => i <= j
        dirs == {TopDir(group[i]) : i \in DOMAIN group}
    IN  CHOOSE d \in dirs :
            \A e \in dirs : count(d) > count(e)
                            \/ (count(d) = count(e) /\ firstAt(d) <= firstAt(e))

RECURSIVE DirGroups(_, _)
DirGroups(acc, groups) ==
    IF groups = <<>> THEN acc
    ELSE LET g == Head(groups)
             d == MainDir(g)
             at == {k \in DOMAIN acc : acc[k].module = d}
         IN  IF at = {}
             THEN DirGroups(Append(acc, [module |-> d, files |-> g]), Tail(groups))
             ELSE LET k == CHOOSE m \in at : TRUE
                  IN  DirGroups([acc EXCEPT ![k].files = @ \o g], Tail(groups))

\* A directory grouping that files every path under its own directory,
\* whatever group it belongs to.
GroupFilesByDirectory(groups, diffs, target_size) ==
    LET files == Flatten(groups)
        dir_groups == DirGroups(<<>>, [i \in DOMAIN files |-> << files[i] >>])
        filtered == SelectSeq(dir_groups, LAMBDA m : Len(m.files) >= 2)
    IN  IF Len(filtered) > 1 THEN filtered ELSE dir_groups

GroupDependencyAwareByDirectory(groups, diffs, target_size) ==
    LET dir_groups == DirGroups(<<>>, groups)
        filtered == SelectSeq(dir_groups, LAMBDA m : Len(m.files) >= 2)
    IN  IF Len(filtered) > 1 THEN filtered ELSE dir_groups

(***************************************************************************)
(* Strategy 3 of _split_pr_by_modules: chunks of chunk_size files.         *)
(***************************************************************************)
RECURSIVE ChunkFiles(_, _)
ChunkFiles(paths, i) ==
    IF i > Len(paths) THEN <<>>
    ELSE << [files |-> SubSeq(paths, i, Min2(i + chunk_size - 1, Len(paths))),
             module |-> ((i - 1) \div chunk_size) + 1] >>
         \o ChunkFiles(paths, i + chunk_size)

(***************************************************************************)
(* _split_pr_by_modules (dependency analysis enabled).                     *)
(***************************************************************************)
\* Step 0 without the files that belong to no group.
AllDependencyGroupsOmitIndependent(paths, found) ==
    IF found # <<>> THEN found ELSE [i \in DOMAIN paths |-> <<paths[i]>>]

\* Step 0: the groups found, followed by the files of no group as singletons.
AllDependencyGroups(paths, found) ==
    LET files_in_groups == UNION {Range(found[i]) : i \in DOMAIN found}
        independent_files == SelectSeq(paths, LAMBDA f : f \notin files_in_groups)
    IN  IF found # <<>>
        THEN found \o [i \in DOMAIN independent_files |-> <<independent_files[i]>>]
        ELSE [i \in DOMAIN paths |-> <<paths[i]>>]

\* A cascade that goes on to the directories and the chunks whenever the
\* dependency groups and the packing gave at most one unit.
SplitPrRetryingOnOneUnit(paths, diffs, ord) ==
    LET found == AnalyzeAndGroupDependencies(paths, diffs, ord)
        groups == AllDependencyGroups(paths, found)
        units == SplitByDependencyGroups(groups, diffs)
        module_groups == GroupDependencyAwareByDirectory(groups, diffs, target_diff_size)
    IN  IF Len(groups) > 1 /\ Len(units) > 1
        THEN [strategy |-> "dependency_groups", found |-> found, units |-> units]
        ELSE IF Len(module_groups) > 1
             THEN [strategy |-> "directory", found |-> found, units |-> module_groups]
             ELSE [strategy |-> "chunks", found |-> found, units |-> ChunkFiles(paths, 1)]

SplitPrByModules(paths, diffs, ord) ==
    LET found == AnalyzeAndGroupDependencies(paths, diffs, ord)
        groups == AllDependencyGroups(paths, found)
        module_groups == GroupDependencyAwareByDirectory(groups, diffs, target_diff_size)
    IN  IF Len(groups) > 1
        THEN [strategy |-> "dependency_groups", found |-> found,
              units |-> SplitByDependencyGroups(groups, diffs)]
        ELSE IF Len(module_groups) > 1
             THEN [strategy |-> "directory", found |-> found, units |-> module_groups]
             ELSE [strategy |-> "chunks", found |-> found, units |-> ChunkFiles(paths, 1)]

(***************************************************************************)
(* The Decision Oracle.  One call of llm.invoke ends in a timeout, in text *)
(* that is not JSON, or in a JSON document.  A document is described by    *)
(* what code_analyzer_node reads of it:                                    *)
(*   has_action, action  - the "action" key and its value;                 *)
(*   params              - "absent", "no_search_items" (a mapping without  *)
(*                         the key), "items" (search_items is a list of    *)
(*                         mappings), "ill_typed" (search_items is a       *)
(*                         non-empty list of strings);                     *)
(*   search_items        - the items, each with a name ("" when the item   *)
(*                         has none) and a type;                           *)
(*   result              - "absent", "mapping" or "ill_typed" (null);      *)
(*   has_critical_issues, critical_issues - the fields of a mapping result.*)
(***************************************************************************)
SymbolNames == {"foo", "bar"}

Item(n, t) == [name |-> n, type |-> t]

Doc(has_action, action, params, search_items, result, has_critical, issues) ==
    [has_action |-> has_action, action |-> action, params |-> params,
     search_items |-> search_items, result |-> result,
     has_critical_issues |-> has_critical, critical_issues |-> issues]

RequestDoc(items) == Doc(TRUE, "request_context", "items", items, "absent", FALSE, <<>>)

ConclusionDoc(has_critical, issues) ==
    Doc(TRUE, "conclusion", "absent", <<>>, "mapping", has_critical, issues)

\* Requests that name at least one symbol.
NamedRequests ==
    { RequestDoc(<< Item("foo", "function") >>),
      RequestDoc(<< Item("foo", "class"), Item("bar", "function") >>),
      RequestDoc(<< Item("", "function"), Item("bar", "variable") >>) }

\* Requests without any usable name.
DegenerateRequests ==
    { RequestDoc(<<>>),
      RequestDoc(<< Item("", "function") >>) }

Conclusions ==
    { ConclusionDoc(FALSE, <<>>),
      ConclusionDoc(TRUE, << "issue" >>) }

\* Documents that lack what validate_schema asks for.
RejectedDocs ==
    { Doc(FALSE, "", "absent", <<>>, "absent", FALSE, <<>>),
      Doc(TRUE, "approve", "absent", <<>>, "mapping", FALSE, <<>>),
      Doc(TRUE, "request_context", "absent", <<>>, "absent", FALSE, <<>>),
      Doc(TRUE, "request_context", "no_search_items", <<>>, "absent", FALSE, <<>>),
      Doc(TRUE, "conclusion", "absent", <<>>, "absent", FALSE, <<>>) }

\* Documents with the keys validate_schema asks for and a value of another
\* type than the prompt describes.
IllTypedDocs ==
    { Doc(TRUE, "conclusion", "absent", <<>>, "ill_typed", FALSE, <<>>),
      Doc(TRUE, "request_context", "ill_typed", <<>>, "absent", FALSE, <<>>) }

OracleDocs ==
    NamedRequests \cup DegenerateRequests \cup Conclusions \cup RejectedDocs
        \cup IllTypedDocs

NoDoc == Doc(FALSE, "", "absent", <<>>, "absent", FALSE, <<>>)

RawResponses ==
    { [kind |-> "timeout", data |-> NoDoc], [kind |-> "not_json", data |-> NoDoc] }
        \cup { [kind |-> "json", data |-> d] : d \in OracleDocs }

\* validate_schema of code_analyzer_node.
ValidateSchema(data) ==
    IF ~data.has_action THEN FALSE
    ELSE IF data.action = "request_context"
         THEN data.params \notin {"absent", "no_search_items"}
         ELSE IF data.action = "conclusion"
              THEN data.result # "absent"
              ELSE FALSE

\* parse_json_with_retry: the first response, among max_retries attempts, that
\* is JSON and passes the validator; None (<<>>) when no attempt does.
RECURSIVE ParseJsonWithRetry(_, _, _)
ParseJsonWithRetry(responses, attempt, max_retries) ==
    IF attempt > max_retries THEN <<>>
    ELSE IF responses[attempt].kind = "json" /\ ValidateSchema(responses[attempt].data)
         THEN << responses[attempt].data >>
         ELSE ParseJsonWithRetry(responses, attempt + 1, max_retries)

\* What the Oracle may answer to the attempts of one call.
AttemptSeqs == [1..code_analyzer_max_retries -> RawResponses]

\* Everything one call of the parser by code_analyzer_node may return.
ParseOutcomes ==
    { ParseJsonWithRetry(r, 1, code_analyzer_max_retries) : r \in AttemptSeqs }

(***************************************************************************)
(* code_analyzer_node: the ceiling of the size tier and the conclusions    *)
(* the node builds itself.                                                 *)
(***************************************************************************)
SizeTiers == {"small", "medium", "large", "xlarge"}

\* size_config[pr_size]['max_iterations'], medium for an unknown tier.
MaxIterationsFor(size, max_iterations) ==
    IF size = "large" THEN (IF max_iterations > 2 THEN max_iterations - 2 ELSE 2)
    ELSE IF size = "xlarge" THEN (IF max_iterations > 4 THEN max_iterations - 4 ELSE 2)
    ELSE max_iterations

\* A ceiling test that lets one more round through.
DepthLimitPassed(count, max_iterations) == count > max_iterations

\* A ceiling test that stops one round early.
DepthLimitNear(count, max_iterations) == count + 1 >= max_iterations

\* if iteration_count >= max_iterations
DepthLimitReached(count, max_iterations) == count >= max_iterations

Conclusion(has_critical, issues, risks, info) ==
    [has_critical_issues |-> has_critical, critical_issues |-> issues,
     potential_risks |-> risks, iteration_info |-> info]

IterationInfo(total, depth) ==
    << [total_iterations |-> total, impact_chain_depth |-> depth] >>

\* A depth-limit return that counts the refused round.
DepthLimitCountAdvanced(count) == count + 1

\* "iteration_count": iteration_count of the depth-limit return.
DepthLimitCount(count) == count

DepthLimitConclusion(count, chain) ==
    Conclusion(FALSE, <<>>, << "depth_limit" >>, IterationInfo(count, Len(chain)))

ParseFailureConclusion == Conclusion(FALSE, <<>>, << "parse_failure" >>, <<>>)

NoSearchItemsConclusion == Conclusion(FALSE, <<>>, << "no_search_items" >>, <<>>)

BadSearchItemsConclusion == Conclusion(FALSE, <<>>, << "bad_search_items" >>, <<>>)

UnknownActionConclusion == Conclusion(FALSE, <<>>, << "unknown_action" >>, <<>>)

\* The conclusion of the Oracle, with iteration_info added.
OracleConclusion(data, count, chain) ==
    Conclusion(data.has_critical_issues, data.critical_issues, <<>>,
               IterationInfo(count + 1, Len(chain)))

\* The names of all the items, empty ones included.
AllItemNames(search_items) == [i \in DOMAIN search_items |-> search_items[i].name]

\* search_names: the names of the items that have a non-empty name.
SearchNames(search_items) ==
    LET named == SelectSeq(search_items, LAMBDA it : it.name # "")
    IN  [i \in DOMAIN named |-> named[i].name]

\* params.get("search_items", []) of a request.
SearchItemsOf(data) == IF data.params = "items" THEN data.search_items ELSE <<>>

\* A routing that sends a finished analysis back to the analyzer.
RoutingLoopsBack(stage) ==
    IF stage \in {"code_analysis", "analysis_complete"} THEN "code_analyzer"
    ELSE IF stage = "context_collection" THEN "context_collector"
    ELSE IF stage = "decision" THEN "decision"
    ELSE "END"

\* subgraph_routing
SubgraphRouting(stage) ==
    IF stage = "code_analysis" THEN "code_analyzer"
    ELSE IF stage = "context_collection" THEN "context_collector"
    ELSE IF stage \in {"analysis_complete", "decision"} THEN "decision"
    ELSE "END"

(***************************************************************************)
(* context_collector_node: the cache test and the entry a search stores.   *)
(***************************************************************************)
UsageCounts == {0, 1}

\* The files in which the usages of the searched symbols are found: the
\* changed file, which has definitions, and a script without any.
UsageFiles == {"a.py", "s.py"}

\* parse_file returns a non-empty node list: the file has definitions.
HasDefinitions(file) == file # "s.py"

\* if nodes: updated_cache[file_path] = nodes
CachedAfterParse(files) == {f \in files : HasDefinitions(f)}

\* A cache test that never finds anything.
NeverCached(name, collected) == FALSE

\* if item_name in all_collected_context
IsCached(name, collected) == collected[name] # <<>>

\* dependencies[item_name] of _ripgrep_ast_search.
SearchEntry(item, usage_count) == [type |-> item.type, usage_count |-> usage_count]

\* A merge that keeps only the entries of the current round.
ReplaceContext(collected, dependencies) == dependencies

\* updated_all_context = {**all_collected_context, **dependencies}
MergeContext(collected, dependencies) ==
    [n \in SymbolNames |->
        IF dependencies[n] # <<>> THEN dependencies[n] ELSE collected[n]]

\* The last item of the sequence with the given name.
LastItemNamed(items, name) ==
    items[CHOOSE i \in DOMAIN items :
            /\ items[i].name = name
            /\ \A j \in DOMAIN items : items[j].name = name => j <= i]

(***************************************************************************)
(* The partitioner as a state machine: a change is given, then partitioned.*)
(***************************************************************************)
\* No review session is running.
\* No snippet is being extracted.
ExtractIdle ==
    /\ lines = <<>> /\ ast_nodes = <<>> /\ line_num = 0
    /\ snippet = <<>> /\ extract_pc = "idle"

\* No search result is being limited.
LimitIdle ==
    /\ search_size = "small" /\ all_results = <<>> /\ limited_results = <<>>
    /\ dependency_entry = <<>> /\ limit_pc = "idle"

\* No search is running.
SearcherIdle ==
    /\ ripgrep_available = FALSE /\ entry_point = "none" /\ patterns = <<>>
    /\ search_results = <<>> /\ search_pc = "idle"

\* No batch of searches is running.
PoolIdle ==
    /\ futures = <<>> /\ batch_results = <<>> /\ pool_pc = "idle"

CacheIdle ==
    /\ file_cache = <<>> /\ disk_version = 0 /\ files_read = 0 /\ file_content = <<>>

UnitsIdle ==
    /\ unit_index = 0 /\ sub_pr_results = <<>> /\ units_pc = "idle"

LookupIdle == lookup = <<>> /\ function_name = <<>>

ManagerIdle ==
    /\ task_queue = <<>> /\ stats = <<>> /\ callers = <<>>
    /\ processors = <<>> /\ tasks = <<>>

ServicesIdle == PoolIdle /\ CacheIdle /\ UnitsIdle /\ LookupIdle /\ ManagerIdle

HelpersIdle == ExtractIdle /\ LimitIdle /\ SearcherIdle /\ ServicesIdle

SessionIdle ==
    /\ pr_diff = "" /\ pr_size = "small" /\ cfg_max_iterations = default_max_iterations
    /\ node = "idle" /\ current_stage = "pr_split"
    /\ code_check_passed = FALSE /\ changed_files = {}
    /\ iteration_count = 0 /\ impact_chain = <<>>
    /\ context_request = <<>> /\ context_response = <<>>
    /\ all_collected_context = [n \in SymbolNames |-> <<>>]
    /\ analysis_conclusion = <<>>
    /\ ast_cache = {} /\ final_decision = "none"
    /\ oracle_result = <<>> /\ oracle_calls = 0 /\ seedings = 0
    /\ gatherings = 0 /\ search_log = <<>>
    /\ parsed_files = {} /\ reparsed = {}

\* The orders in which the sets of dependent files may be iterated.
SetOrders(n) ==
    IF n <= MaxPermFiles THEN Permutations1(n)
    ELSE {[i \in 1..n |-> i], [i \in 1..n |-> n + 1 - i]}

SplitInit ==
    /\ \E n \in 0..MaxGroupFiles :
         /\ file_paths = SubSeq(PathPool, 1, n)
         /\ file_diffs \in [Range(SubSeq(PathPool, 1, n)) ->
                               IF n <= MaxFiles THEN DiffChoices ELSE GroupDiffChoices]
    /\ dependency_groups = <<>>
    /\ sub_prs = <<>>
    /\ strategy = "none"
    /\ split_pc = "ready"
    /\ SessionIdle
    /\ HelpersIdle

SplitPr ==
    /\ split_pc = "ready"
    /\ \E ord \in SetOrders(Len(file_paths)) :
         \E r \in {SplitPrByModules(file_paths, file_diffs, ord)} :
             /\ dependency_groups' = r.found
             /\ sub_prs' = r.units
             /\ strategy' = r.strategy
    /\ split_pc' = "done"
    /\ UNCHANGED <<file_paths, file_diffs, stateVars, historyVars, helperVars>>

SplitNext == SplitPr

SplitSpec == SplitInit /\ [][SplitNext]_vars

(***************************************************************************)
(* One session of the PR-review subgraph:                                  *)
(*   START -> git_review -> code_analyzer <-> context_collector            *)
(*                                        -> decision -> END.              *)
(* A node returns the keys it changes; the other keys keep their values.   *)
(* An exception raised inside a node ends the session (node = "raised").   *)
(***************************************************************************)
\* No partition is being computed.
SplitIdle ==
    /\ file_paths = <<>> /\ file_diffs = <<>> /\ dependency_groups = <<>>
    /\ sub_prs = <<>> /\ strategy = "none" /\ split_pc = "idle"

\* The files of the change under review.
PrFiles == {"a.py"}

\* subgraph_input of single_pr_processor_node / sub_pr_processor_node.
SessionInit ==
    /\ SplitIdle
    /\ HelpersIdle
    /\ pr_diff \in {"", "diff"}
    /\ pr_size \in SizeTiers
    /\ cfg_max_iterations \in 0..MaxConfigIterations
    /\ node = "git_review"
    /\ current_stage = "code_analysis"
    /\ code_check_passed = FALSE /\ changed_files = {}
    /\ iteration_count = 0 /\ impact_chain = <<>>
    /\ context_request = <<>> /\ context_response = <<>>
    /\ all_collected_context = [n \in SymbolNames |-> <<>>]
    /\ analysis_conclusion = <<>>
    /\ ast_cache = {} /\ final_decision = "none"
    /\ oracle_result = <<>> /\ oracle_calls = 0 /\ seedings = 0
    /\ gatherings = 0 /\ search_log = <<>>
    /\ parsed_files = {} /\ reparsed = {}

\* git_review_node
GitReview ==
    /\ node = "git_review"
    /\ IF pr_diff = ""
       THEN /\ current_stage' = "git_review_failed"
            /\ UNCHANGED <<code_check_passed, changed_files>>
       ELSE /\ \E passed \in BOOLEAN : code_check_passed' = passed
            /\ changed_files' = PrFiles
            /\ current_stage' = "code_analysis"
    /\ node' = SubgraphRouting(current_stage')
    /\ UNCHANGED <<splitVars, helperVars, pr_diff, pr_size, cfg_max_iterations, iteration_count,
                   impact_chain, context_request, context_response,
                   all_collected_context, analysis_conclusion, ast_cache,
                   final_decision, historyVars>>

\* A chain whose entries number the rounds from 0.
UpdatedChainFromZero(chain, count, search_items) ==
    Append(chain, [iteration |-> count, search_items |-> search_items])

\* updated_chain = impact_chain + [new_chain_entry]
UpdatedChain(chain, count, search_items) ==
    Append(chain, [iteration |-> count + 1, search_items |-> search_items])

\* A return of code_analyzer_node: the keys of the returned mapping.
AnalyzerReturn(conclusion, stage, count, chain, request, cache) ==
    /\ analysis_conclusion' = conclusion
    /\ current_stage' = stage
    /\ iteration_count' = count
    /\ impact_chain' = chain
    /\ context_request' = request
    /\ ast_cache' = cache
    /\ node' = SubgraphRouting(stage)

\* An exception leaves code_analyzer_node: nothing is returned.
AnalyzerRaise ==
    /\ node' = "raised"
    /\ UNCHANGED <<analysis_conclusion, current_stage, iteration_count, impact_chain,
                   context_request, ast_cache>>

\* A node that asks the Oracle again after a failed parse.
ParseFailureRetry ==
    AnalyzerReturn(analysis_conclusion, "code_analysis",
                   iteration_count + 1, impact_chain, context_request, ast_cache)

\* if not result: the return of code_analyzer_node after a failed parse.
ParseFailureReturn ==
    AnalyzerReturn(<< ParseFailureConclusion >>, "analysis_complete",
                   iteration_count + 1, impact_chain, context_request, ast_cache)

\* The part of code_analyzer_node after parse_json_with_retry returned result.
AnalyzerOnResult(result, updated_ast_cache) ==
    IF result = <<>>
    THEN ParseFailureReturn
    ELSE IF result[1].action = "conclusion"
    THEN IF result[1].result = "ill_typed"
         THEN AnalyzerRaise
         ELSE AnalyzerReturn(<< OracleConclusion(result[1], iteration_count, impact_chain) >>,
                             "analysis_complete", iteration_count + 1, impact_chain,
                             context_request, updated_ast_cache)
    ELSE IF result[1].action = "request_context"
    THEN IF result[1].params = "ill_typed"
         THEN AnalyzerRaise
         ELSE IF SearchItemsOf(result[1]) = <<>>
         THEN AnalyzerReturn(<< NoSearchItemsConclusion >>, "analysis_complete",
                             iteration_count + 1, impact_chain, context_request, ast_cache)
         ELSE IF SearchNames(SearchItemsOf(result[1])) = <<>>
         THEN AnalyzerReturn(<< BadSearchItemsConclusion >>, "analysis_complete",
                             iteration_count + 1, impact_chain, context_request, ast_cache)
         ELSE AnalyzerReturn(analysis_conclusion, "context_collection",
                             iteration_count + 1,
                             UpdatedChain(impact_chain, iteration_count,
                                          SearchItemsOf(result[1])),
                             << [search_items |-> SearchItemsOf(result[1])] >>,
                             ast_cache)
    ELSE AnalyzerReturn(<< UnknownActionConclusion >>, "analysis_complete",
                        iteration_count + 1, impact_chain, context_request, ast_cache)

\* code_analyzer_node
CodeAnalyzer ==
    /\ node = "code_analyzer"
    /\ seedings' = IF iteration_count = 0 THEN seedings + 1 ELSE seedings
    /\ \E parsed \in (IF iteration_count = 0 THEN SUBSET changed_files ELSE {{}}) :
         /\ parsed_files' = parsed_files \cup parsed
         /\ reparsed' = reparsed \cup (parsed \cap parsed_files)
         /\ IF DepthLimitReached(iteration_count,
                                 MaxIterationsFor(pr_size, cfg_max_iterations))
            THEN /\ AnalyzerReturn(<< DepthLimitConclusion(iteration_count, impact_chain) >>,
                                   "analysis_complete", DepthLimitCount(iteration_count),
                                   impact_chain, context_request, ast_cache)
                 /\ UNCHANGED <<oracle_result, oracle_calls>>
            ELSE \E result \in ParseOutcomes :
                    /\ oracle_result' = result
                    /\ oracle_calls' = oracle_calls + 1
                    /\ AnalyzerOnResult(result, ast_cache \cup CachedAfterParse(parsed))
    /\ UNCHANGED <<splitVars, helperVars, pr_diff, pr_size, cfg_max_iterations, code_check_passed,
                   changed_files, context_response, all_collected_context,
                   final_decision, gatherings, search_log>>

\* The part of context_collector_node that serves a request: the items with
\* a name are answered from all_collected_context when their name is a key
\* of it, and searched otherwise.
CollectorServe(search_items) ==
    LET named == SelectSeq(search_items, LAMBDA it : it.name # "")
        items_to_search ==
            SelectSeq(named, LAMBDA it : ~IsCached(it.name, all_collected_context))
        reused == {named[i].name : i \in {j \in DOMAIN named :
                                            IsCached(named[j].name, all_collected_context)}}
        searched == {items_to_search[i].name : i \in DOMAIN items_to_search}
    IN  \E usage \in [searched -> UsageCounts] :
        \E matched \in (IF \E n \in searched : usage[n] > 0
                         THEN SUBSET UsageFiles ELSE {{}}) :
        \E parsed \in {matched \ ast_cache} :
        \E dependencies \in
              {[n \in SymbolNames |->
                  IF n \in searched
                  THEN << SearchEntry(LastItemNamed(items_to_search, n), usage[n]) >>
                  ELSE IF n \in reused THEN all_collected_context[n] ELSE <<>>]} :
            /\ search_log' = search_log \o
                    [i \in DOMAIN items_to_search |->
                        [name |-> items_to_search[i].name, iteration |-> iteration_count]]
            /\ context_response' =
                    << [dependencies |-> dependencies, iteration |-> iteration_count] >>
            /\ all_collected_context' = MergeContext(all_collected_context, dependencies)
            /\ context_request' = <<>>
            /\ current_stage' = "code_analysis"
            /\ ast_cache' = ast_cache \cup CachedAfterParse(parsed)
            /\ parsed_files' = parsed_files \cup parsed
            /\ reparsed' = reparsed \cup (parsed \cap parsed_files)
            /\ gatherings' = gatherings + 1

\* context_collector_node
ContextCollector ==
    /\ node = "context_collector"
    /\ IF context_request = <<>>
       THEN /\ current_stage' = "code_analysis"
            /\ UNCHANGED <<search_log, context_response, all_collected_context,
                           context_request, ast_cache, gatherings, parsed_files,
                           reparsed>>
       ELSE CollectorServe(context_request[1].search_items)
    /\ node' = SubgraphRouting(current_stage')
    /\ UNCHANGED <<splitVars, helperVars, pr_diff, pr_size, cfg_max_iterations, code_check_passed,
                   changed_files, iteration_count, impact_chain, analysis_conclusion,
                   final_decision, oracle_result, oracle_calls, seedings>>

\* issue and str(issue).strip(): the issues that are empty or blank.
BlankIssues == {"", " "}

\* A decision that trusts the flag has_critical_issues alone.
FinalDecisionByFlag(code_passed, conclusion) ==
    LET has_critical_issues ==
            IF conclusion = <<>> THEN FALSE ELSE conclusion[1].has_critical_issues
    IN  IF code_passed /\ ~has_critical_issues THEN "approve" ELSE "reject"

\* decision = "approve" if (code_passed and rule_passed) else "reject"
FinalDecision(code_passed, conclusion) ==
    LET has_critical_issues ==
            IF conclusion = <<>> THEN FALSE ELSE conclusion[1].has_critical_issues
        critical_issues ==
            IF conclusion = <<>> THEN <<>> ELSE conclusion[1].critical_issues
        valid_critical_issues ==
            SelectSeq(critical_issues, LAMBDA issue : issue \notin BlankIssues)
        rule_passed == ~has_critical_issues /\ Len(valid_critical_issues) = 0
    IN  IF code_passed /\ rule_passed THEN "approve" ELSE "reject"

\* decision_node
Decision ==
    /\ node = "decision"
    /\ final_decision' = FinalDecision(code_check_passed, analysis_conclusion)
    /\ current_stage' = "feishu_feedback"
    /\ node' = "END"
    /\ UNCHANGED <<splitVars, helperVars, pr_diff, pr_size, cfg_max_iterations, code_check_passed,
                   changed_files, iteration_count, impact_chain, context_request,
                   context_response, all_collected_context, analysis_conclusion,
                   ast_cache, historyVars>>

SessionNext == GitReview \/ CodeAnalyzer \/ ContextCollector \/ Decision

SessionSpec == SessionInit /\ [][SessionNext]_vars

\* The subgraph runs a node whenever one is due.
FairSessionSpec == SessionSpec /\ WF_vars(SessionNext)

(***************************************************************************)
(* Properties of the partitioner.                                          *)
(***************************************************************************)
UnitFiles == Flatten([i \in DOMAIN sub_prs |-> sub_prs[i].files])

\* C1: the units returned by _split_pr_by_modules partition the changed
\* files: the file lists together hold every input path, each exactly once,
\* whichever strategy produced them.
C1_Partition ==
    split_pc = "done" =>
        /\ Len(UnitFiles) = Len(file_paths)
        /\ Range(UnitFiles) = Range(file_paths)
        /\ \A i, j \in DOMAIN UnitFiles : i # j => UnitFiles[i] # UnitFiles[j]

\* A dependency group, merged small files and size-packed files in one result.
C1_Witness ==
    /\ split_pc = "done"
    /\ strategy = "dependency_groups"
    /\ \E i \in DOMAIN sub_prs : sub_prs[i].is_dependency_group
    /\ Cardinality({i \in DOMAIN sub_prs : ~sub_prs[i].is_dependency_group}) >= 2
    /\ \E i \in DOMAIN sub_prs :
          ~sub_prs[i].is_dependency_group /\ Len(sub_prs[i].files) >= 2

\* C2: every dependency group of more than one file lies entirely inside
\* exactly one returned unit, on every strategy.
C2_GroupAtomicity ==
    split_pc = "done" =>
        \A g \in DOMAIN dependency_groups :
            Cardinality({i \in DOMAIN sub_prs :
                            Range(dependency_groups[g]) \subseteq Range(sub_prs[i].files)}) = 1

\* The undirected reference graph of the change: who references whom, and
\* the neighbours of every file.
ReferenceMap ==
    LET fdefs == FileDefinitions(file_paths, file_diffs)
    IN  [a \in Range(file_paths) |-> DepsOf(a, fdefs, file_diffs)]

NeighbourMap(refs) ==
    [a \in DOMAIN refs |-> refs[a] \cup {b \in DOMAIN refs : a \in refs[b]}]

RECURSIVE ComponentFrom(_, _)
ComponentFrom(S, nb) ==
    LET T == S \cup UNION {nb[a] : a \in S}
    IN  IF T = S THEN S ELSE ComponentFrom(T, nb)

Components(nb) == {ComponentFrom({f}, nb) : f \in DOMAIN nb}

\* C3: the groups of _analyze_and_group_dependencies are exactly the
\* connected components with more than one file of the undirected reference
\* graph, for every order of the files and of the unions.
C3_ConnectedComponents ==
    split_pc = "done" =>
        \A refs \in {ReferenceMap} :
            /\ {Range(dependency_groups[g]) : g \in DOMAIN dependency_groups}
                  = {c \in Components(NeighbourMap(refs)) : Cardinality(c) > 1}
            /\ \A g, h \in DOMAIN dependency_groups :
                  g # h => Range(dependency_groups[g]) # Range(dependency_groups[h])
            /\ \A g \in DOMAIN dependency_groups :
                  Len(dependency_groups[g]) = Cardinality(Range(dependency_groups[g]))

\* A references B, B references C, and A and C do not reference one another:
\* the three are grouped only through B.
C3_Witness ==
    /\ split_pc = "done"
    /\ \E refs \in {ReferenceMap} :
          \E g \in DOMAIN dependency_groups :
              \E a, b, c \in Range(dependency_groups[g]) :
                  /\ b \in refs[a] /\ c \in refs[b]
                  /\ a # c /\ c \notin refs[a] /\ a \notin refs[c]

(***************************************************************************)
(* Properties of a review session.                                         *)
(***************************************************************************)
\* The iteration ceiling of the session's size tier.
Ceiling == MaxIterationsFor(pr_size, cfg_max_iterations)

RiskConclusion(c) ==
    /\ c # <<>>
    /\ c[1].has_critical_issues = FALSE
    /\ c[1].critical_issues = <<>>
    /\ c[1].potential_risks # <<>>

IsDepthLimitConclusion(c) == c # <<>> /\ c[1].potential_risks = << "depth_limit" >>

\* Every symbol name is searched in at most one iteration of the session.
SearchedInOneIteration(log) ==
    \A i, j \in DOMAIN log : log[i].name = log[j].name => log[i].iteration = log[j].iteration

\* C4: a symbol name that is a key of all_collected_context when
\* context_collector_node serves a request is not searched by that step, its
\* entry stays as it was, the request is answered with that entry, and no
\* name is searched in two iterations of a session.
C4_EvidenceIdempotence ==
    [][ (node = "context_collector" /\ context_request # <<>>) =>
          /\ SearchedInOneIteration(search_log')
          /\ \A n \in SymbolNames :
                all_collected_context[n] # <<>> =>
                  /\ all_collected_context'[n] = all_collected_context[n]
                  /\ \A i \in DOMAIN search_log' :
                        i > Len(search_log) => search_log'[i].name # n
                  /\ n \in Range(SearchNames(context_request[1].search_items)) =>
                        context_response'[1].dependencies[n] = all_collected_context[n]
      ]_vars

\* A request of a later iteration was answered for a name searched earlier.
C4_Witness ==
    /\ node = "code_analyzer"
    /\ context_response # <<>>
    /\ \E n \in SymbolNames :
          /\ context_response[1].dependencies[n] # <<>>
          /\ \E i \in DOMAIN search_log :
                /\ search_log[i].name = n
                /\ search_log[i].iteration < context_response[1].iteration

\* C5: whatever the Oracle answers, a session that entered code_analyzer_node
\* reaches analysis_complete, and parse_json_with_retry is called at most
\* Ceiling times.
C5_BoundedTermination ==
    /\ (node = "code_analyzer") ~> (current_stage = "analysis_complete")
    /\ [](oracle_calls <= Ceiling)

\* C6: with a ceiling of 0 the Oracle is never called, no request is issued,
\* nothing is gathered, iteration_count stays 0, and once code_analyzer_node
\* has run it has seeded once and returned the depth-limit conclusion.
C6_ZeroCeiling ==
    Ceiling = 0 =>
        /\ oracle_calls = 0
        /\ context_request = <<>>
        /\ gatherings = 0
        /\ search_log = <<>>
        /\ iteration_count = 0
        /\ node \notin {"context_collector", "raised"}
        /\ node \in {"git_review", "code_analyzer"} => seedings = 0
        /\ (node \in {"decision", "END"} /\ pr_diff # "") =>
              /\ seedings = 1
              /\ analysis_conclusion = << DepthLimitConclusion(0, <<>>) >>
              /\ current_stage \in {"analysis_complete", "feishu_feedback"}

\* The first code_analyzer_node step of a session with ceiling 0 has run.
C6_Witness ==
    /\ Ceiling = 0
    /\ node = "decision"
    /\ seedings = 1
    /\ IsDepthLimitConclusion(analysis_conclusion)

\* C7: iteration_count is always between 0 and the ceiling of the tier, and
\* no step decreases it.
C7_IterationBounds ==
    /\ [](0 <= iteration_count /\ iteration_count <= Ceiling)
    /\ [][iteration_count' >= iteration_count]_vars

\* A session on tier large that used every round of its ceiling.
C7_Witness ==
    /\ pr_size = "large"
    /\ Ceiling > 2
    /\ iteration_count = Ceiling
    /\ gatherings = Ceiling
    /\ node = "code_analyzer"

\* C8: a step of code_analyzer_node returns the depth-limit conclusion exactly
\* when as many requests have been fulfilled as the ceiling of the tier; it
\* is a normal return (the session goes on to decision) with
\* has_critical_issues false, no critical issue and the depth-limit risk.
\* With the default configuration the ceiling is 6 on tier small and 2 on
\* tier xlarge.
C8_DepthLimit ==
    [][ node = "code_analyzer" =>
          /\ (gatherings = Ceiling) <=>
                (node' # "raised" /\ IsDepthLimitConclusion(analysis_conclusion'))
          /\ IsDepthLimitConclusion(analysis_conclusion') =>
                /\ RiskConclusion(analysis_conclusion')
                /\ current_stage' = "analysis_complete"
                /\ node' = "decision"
                /\ oracle_calls' = oracle_calls
          /\ MaxIterationsFor("small", default_max_iterations) = 6
          /\ MaxIterationsFor("xlarge", default_max_iterations) = 2
          /\ (pr_size = "small" /\ cfg_max_iterations = default_max_iterations
                 /\ gatherings <= 2) => ~IsDepthLimitConclusion(analysis_conclusion')
      ]_vars

\* Tier xlarge under the default configuration: the third round is refused.
C8_Witness ==
    /\ pr_size = "xlarge"
    /\ cfg_max_iterations = default_max_iterations
    /\ gatherings = 2
    /\ oracle_calls = 2
    /\ node = "decision"
    /\ IsDepthLimitConclusion(analysis_conclusion)

\* The Oracle's last answer was a request without any usable name.
DegenerateRequest(result) ==
    /\ result # <<>>
    /\ result[1].action = "request_context"
    /\ result[1].params = "items"
    /\ \A i \in DOMAIN result[1].search_items : result[1].search_items[i].name = ""

\* C9: when the Oracle returns request_context with an empty search_items
\* list or with items none of which has a non-empty name, the step ends in
\* analysis_complete with has_critical_issues false and a potential risk,
\* appends nothing to impact_chain, sets no context_request, runs no search
\* and hands over to decision.
C9_DegenerateRequest ==
    [][ (node = "code_analyzer" /\ oracle_calls' = oracle_calls + 1
            /\ DegenerateRequest(oracle_result')) =>
          /\ current_stage' = "analysis_complete"
          /\ node' = "decision"
          /\ RiskConclusion(analysis_conclusion')
          /\ impact_chain' = impact_chain
          /\ context_request' = <<>>
          /\ search_log' = search_log
          /\ gatherings' = gatherings
      ]_vars

\* A request whose only item has no name ended the analysis.
C9_Witness ==
    /\ DegenerateRequest(oracle_result)
    /\ Len(oracle_result[1].search_items) > 0
    /\ node = "decision"
    /\ current_stage = "analysis_complete"
    /\ RiskConclusion(analysis_conclusion)
    /\ impact_chain # <<>>

\* No attempt of the sequence is a JSON document carrying one of the two
\* actions.
NoKnownAction(responses) ==
    \A i \in DOMAIN responses :
        \/ responses[i].kind # "json"
        \/ ~responses[i].data.has_action
        \/ responses[i].data.action \notin {"request_context", "conclusion"}

\* The parser returns nothing when every attempt lacks a known action, and
\* never returns a document with another action.
MalformedNeverParsed ==
    /\ \A r \in AttemptSeqs :
          NoKnownAction(r) => ParseJsonWithRetry(r, 1, code_analyzer_max_retries) = <<>>
    /\ \A o \in ParseOutcomes :
          o # <<>> => o[1].action \in {"request_context", "conclusion"}

\* C10: when parse_json_with_retry returns nothing (which it does when every
\* attempt lacks a valid action), or returns an action other than
\* request_context and conclusion, the step ends in analysis_complete with
\* has_critical_issues false and a potential risk, runs no search and hands
\* over to decision.
C10_MalformedResponse ==
    [][ (node = "code_analyzer" /\ oracle_calls' = oracle_calls + 1
            /\ \/ oracle_result' = <<>>
               \/ oracle_result'[1].action \notin {"request_context", "conclusion"}) =>
          /\ MalformedNeverParsed
          /\ current_stage' = "analysis_complete"
          /\ node' = "decision"
          /\ RiskConclusion(analysis_conclusion')
          /\ context_request' = context_request
          /\ search_log' = search_log
          /\ gatherings' = gatherings
      ]_vars

\* The parser gave up in the second round of a session.
C10_Witness ==
    /\ oracle_result = <<>>
    /\ oracle_calls = 2
    /\ node = "decision"
    /\ current_stage = "analysis_complete"
    /\ analysis_conclusion = << ParseFailureConclusion >>

\* The Oracle's last answer was a request naming at least one symbol.
NamedRequest(result) ==
    /\ result # <<>>
    /\ result[1].action = "request_context"
    /\ result[1].params = "items"
    /\ \E i \in DOMAIN result[1].search_items : result[1].search_items[i].name # ""

\* C11: context_collector_node runs only directly after a code_analyzer_node
\* step that returned a request with at least one named item, and is directly
\* followed by code_analyzer_node; after a code_analyzer_node step that
\* returned analysis_complete the decision node runs, once, and then the
\* session is over: neither code_analyzer_node nor context_collector_node
\* runs again.
C11_StateMachine ==
    /\ [][
          /\ (node' = "context_collector") =>
                /\ node = "code_analyzer"
                /\ oracle_calls' = oracle_calls + 1
                /\ NamedRequest(oracle_result')
          /\ (node = "context_collector") =>
                /\ node' = "code_analyzer"
                /\ gatherings' = gatherings + 1
          /\ (node = "code_analyzer" /\ current_stage' = "analysis_complete") =>
                node' = "decision"
          /\ (node = "decision") =>
                /\ node' = "END"
                /\ final_decision = "none"
          /\ (node \in {"END", "raised"}) => node' = node
          /\ (current_stage \in {"analysis_complete", "feishu_feedback"}) =>
                /\ node' \in {"decision", "END"}
                /\ oracle_calls' = oracle_calls
                /\ gatherings' = gatherings
                /\ seedings' = seedings
       ]_vars
    /\ (current_stage = "analysis_complete") ~> (node = "END" /\ final_decision # "none")

\* The decision node has run after two rounds of gathering.
C11_Witness ==
    /\ node = "END"
    /\ gatherings = 2
    /\ final_decision # "none"
    /\ current_stage = "feishu_feedback"

\* C12: the conclusion with which a session reaches analysis_complete carries
\* iteration_info, whose total_iterations is the session's iteration_count and
\* whose impact_chain_depth is the length of impact_chain.
C12_IterationInfo ==
    current_stage = "analysis_complete" =>
        /\ analysis_conclusion # <<>>
        /\ analysis_conclusion[1].iteration_info
              = IterationInfo(iteration_count, Len(impact_chain))


\* C13: all_collected_context and ast_cache only grow during a session: no
\* step removes a key of either, and no step replaces the entry stored under
\* a name (the node list cached for a file is the list parse_file gives for
\* that file, so a file that stays in the cache keeps its list).
C13_MonotoneCaches ==
    [][ /\ \A n \in SymbolNames :
              all_collected_context[n] # <<>> =>
                  all_collected_context'[n] = all_collected_context[n]
        /\ ast_cache \subseteq ast_cache'
      ]_vars

\* A second round of gathering has run on a session that already held an
\* entry and a cached file, and has added a second entry.
C13_Witness ==
    /\ gatherings = 2
    /\ \A n \in SymbolNames : all_collected_context[n] # <<>>
    /\ search_log[1].iteration < search_log[Len(search_log)].iteration
    /\ "a.py" \in ast_cache

\* C14: the grammar is run at most once on a file path during a session: a
\* file parsed in Seeding or in an earlier round of Gathering is served from
\* ast_cache afterwards.
C14_ParseOnce == reparsed = {}

(***************************************************************************)
(* Snippet extraction of the context collector: for one match in a file,   *)
(* _extract_code_context tries _extract_ast_code_block on the nodes of the *)
(* file's syntax tree and falls back to _extract_fixed_lines_context.      *)
(* A file of n lines is the sequence 1..n, so a slice of the file shows    *)
(* which lines it holds.                                                   *)
(***************************************************************************)
\* The longest list of syntax-tree nodes tried.
MaxNodes == 2

\* The lengths of the files tried.
FileLengths == {30, 400}

\* The first and last lines of the nodes tried, and the types of the nodes.
NodeStarts == {1, 20, 41}

NodeEnds == {25, 300, 301, 340, 341, 400}

NodeTypes == {"function", "class"}

\* The matched lines tried.
MatchLines ==
    {1, 10, 11, 12, 20, 21, 22, 26, 41, 60, 91, 92, 290, 291, 292, 341, 390, 391, 400}

\* if block_lines > 300
block_lines_limit == 300

\* context_start = max(start_line, line_num - 51)
context_before == 51

\* context_end = min(end_line, line_num + 50)
context_after == 50

\* start = max(0, line_num - 11)
fixed_before == 11

\* end = min(len(lines), line_num + 10)
fixed_after == 10

Max(a, b) == IF a >= b THEN a ELSE b

Min(a, b) == IF a <= b THEN a ELSE b

\* The Python slice seq[a:b] for 0 <= a and 0 <= b.
Slice(seq, a, b) == SubSeq(seq, a + 1, Min(b, Len(seq)))

\* The nodes ASTParser.parse_file can give for a file of n lines, and its
\* node lists, which are sorted by line_number.
Nodes(n) ==
    {nd \in [type : NodeTypes,
             line_number : {x \in NodeStarts : x <= n},
             end_line : {x \in NodeEnds : x <= n}] :
        nd.line_number <= nd.end_line}

NodeLists(n) ==
    {l \in UNION {[1..k -> Nodes(n)] : k \in 0..MaxNodes} :
        \A i \in 1..(Len(l) - 1) : l[i].line_number <= l[i + 1].line_number}

\* node.line_number <= line_num <= node.end_line
Contains(nd, ln) == nd.line_number <= ln /\ ln <= nd.end_line

\* A comparison that prefers the node with the larger span.
Wider(nd, other) ==
    nd.end_line - nd.line_number > other.end_line - other.line_number

\* node.end_line - node.line_number <
\*     enclosing_node.end_line - enclosing_node.line_number
Narrower(nd, other) ==
    nd.end_line - nd.line_number < other.end_line - other.line_number

\* The loop of _extract_ast_code_block over ast_nodes, from node i on, with
\* enclosing the value of enclosing_node so far (<<>> is None).
RECURSIVE EnclosingNode(_, _, _, _)
EnclosingNode(nodes, ln, i, enclosing) ==
    IF i > Len(nodes) THEN enclosing
    ELSE EnclosingNode(nodes, ln, i + 1,
             IF /\ Contains(nodes[i], ln)
                /\ (enclosing = <<>> \/ Narrower(nodes[i], enclosing[1]))
             THEN << nodes[i] >>
             ELSE enclosing)

\* An excerpt that is clipped to the file instead of the block.
ContextStartInFile(start_line, ln) == Max(0, ln - context_before)

ContextStart(start_line, ln) == Max(start_line, ln - context_before)

ContextEnd(end_line, ln) == Min(end_line, ln + context_after)

\* A window of five lines on each side, as the docstring of
\* _extract_fixed_lines_context has it.
FixedStartFiveLines(ln) == Max(0, ln - 6)

FixedStart(ln) == Max(0, ln - fixed_before)

FixedEnd(ln, file) == Min(Len(file), ln + fixed_after)

\* A reported first line that is left 0-based.
ReportedStartZeroBased(start) == start

\* "start_line": start_line + 1
ReportedStart(start) == start + 1

\* _extract_ast_code_block; <<>> is None.
ExtractAstCodeBlock(ln, file, nodes) ==
    LET enclosing_node == EnclosingNode(nodes, ln, 1, <<>>)
    IN  IF enclosing_node = <<>> THEN <<>>
        ELSE LET start_line == Max(0, enclosing_node[1].line_number - 1)
                 end_line == Min(Len(file), enclosing_node[1].end_line)
                 block_lines == end_line - start_line
             IN  << [line |-> ln,
                     type |-> enclosing_node[1].type,
                     start_line |-> ReportedStart(start_line),
                     end_line |-> end_line,
                     context |->
                         IF block_lines > block_lines_limit
                         THEN Slice(file, ContextStart(start_line, ln),
                                    ContextEnd(end_line, ln))
                         ELSE Slice(file, start_line, end_line),
                     extraction_method |-> "AST",
                     block_info |->
                         IF block_lines > block_lines_limit
                         THEN "partial" ELSE "complete"] >>

\* _extract_fixed_lines_context
ExtractFixedLinesContext(ln, file) ==
    << [line |-> ln,
        type |-> "unknown",
        start_line |-> ReportedStart(FixedStart(ln)),
        end_line |-> FixedEnd(ln, file),
        context |-> Slice(file, FixedStart(ln), FixedEnd(ln, file)),
        extraction_method |-> "fixed_lines",
        block_info |-> "window"] >>

\* The body of the loop over the matches of a file in _extract_code_context.
ExtractSnippet(ln, file, nodes) ==
    IF nodes # <<>> /\ ExtractAstCodeBlock(ln, file, nodes) # <<>>
    THEN ExtractAstCodeBlock(ln, file, nodes)
    ELSE ExtractFixedLinesContext(ln, file)

ExtractInit ==
    /\ SplitIdle
    /\ SessionIdle
    /\ LimitIdle
    /\ SearcherIdle
    /\ ServicesIdle
    /\ lines \in {[i \in 1..n |-> i] : n \in FileLengths}
    /\ ast_nodes \in NodeLists(Len(lines))
    /\ line_num \in {ln \in MatchLines : ln <= Len(lines)}
    /\ snippet = <<>>
    /\ extract_pc = "ready"

ExtractMatch ==
    /\ extract_pc = "ready"
    /\ snippet' = ExtractSnippet(line_num, lines, ast_nodes)
    /\ extract_pc' = "done"
    /\ UNCHANGED <<splitVars, stateVars, historyVars, limitVars, searcherVars,
                   serviceVars, lines,
                   ast_nodes, line_num>>

ExtractNext == ExtractMatch

ExtractSpec == ExtractInit /\ [][ExtractNext]_vars

\* The lines a to b of a file, in order.
Interval(a, b) == [k \in 1..(b - a + 1) |-> a + k - 1]

\* The positions in ast_nodes of the nodes that contain the matched line.
Containing == {i \in DOMAIN ast_nodes : Contains(ast_nodes[i], line_num)}

\* The number of lines of a node.
BlockLines(nd) == nd.end_line - nd.line_number + 1

\* C15: _extract_ast_code_block selects a node containing the matched line
\* such that no node containing the line has a strictly smaller span, and it
\* returns nothing (the snippet then comes from the fixed window) exactly
\* when no node contains the line.
C15_SmallestEnclosing ==
    extract_pc = "done" =>
        /\ (snippet[1].extraction_method = "fixed_lines") <=> (Containing = {})
        /\ (Containing # {}) =>
              \E i \in Containing :
                  /\ snippet[1].type = ast_nodes[i].type
                  /\ snippet[1].start_line = ast_nodes[i].line_number
                  /\ snippet[1].end_line = ast_nodes[i].end_line
                  /\ \A j \in Containing :
                        BlockLines(ast_nodes[j]) >= BlockLines(ast_nodes[i])

\* The line lay in two nodes of different spans, the wider one listed
\* first, and the snippet is the narrower one.
C15_Witness ==
    /\ extract_pc = "done"
    /\ Len(ast_nodes) = 2
    /\ Containing = {1, 2}
    /\ BlockLines(ast_nodes[1]) > BlockLines(ast_nodes[2])
    /\ snippet[1].extraction_method = "AST"
    /\ snippet[1].start_line = ast_nodes[2].line_number

\* C16 (as stated): for a matched line strictly inside the body of any
\* function of the index whose block has at most 300 lines, the snippet's
\* start_line and end_line are that function's line_number and end_line.
C16_FunctionSpan ==
    extract_pc = "done" =>
        \A i \in DOMAIN ast_nodes :
            (/\ ast_nodes[i].type = "function"
             /\ ast_nodes[i].line_number < line_num
             /\ line_num < ast_nodes[i].end_line
             /\ BlockLines(ast_nodes[i]) <= block_lines_limit)
            => /\ snippet[1].start_line = ast_nodes[i].line_number
               /\ snippet[1].end_line = ast_nodes[i].end_line

\* C16 (amended): the same, for a function such that every other node of the
\* index containing the line has a strictly larger span or the same span
\* bounds: the snippet reports the span of the innermost node.
C16_InnermostFunctionSpan ==
    extract_pc = "done" =>
        \A i \in DOMAIN ast_nodes :
            (/\ ast_nodes[i].type = "function"
             /\ ast_nodes[i].line_number < line_num
             /\ line_num < ast_nodes[i].end_line
             /\ BlockLines(ast_nodes[i]) <= block_lines_limit
             /\ \A j \in Containing :
                   \/ BlockLines(ast_nodes[j]) > BlockLines(ast_nodes[i])
                   \/ /\ ast_nodes[j].line_number = ast_nodes[i].line_number
                      /\ ast_nodes[j].end_line = ast_nodes[i].end_line)
            => /\ snippet[1].extraction_method = "AST"
               /\ snippet[1].start_line = ast_nodes[i].line_number
               /\ snippet[1].end_line = ast_nodes[i].end_line

\* The line lay strictly inside a function of at most 300 lines that lies in
\* a wider class, and the snippet has the function's span.
C16_Witness ==
    /\ extract_pc = "done"
    /\ \E i, j \in DOMAIN ast_nodes :
          /\ ast_nodes[i].type = "function" /\ ast_nodes[j].type = "class"
          /\ ast_nodes[i].line_number < line_num /\ line_num < ast_nodes[i].end_line
          /\ BlockLines(ast_nodes[i]) = block_lines_limit
          /\ Contains(ast_nodes[j], line_num)
          /\ BlockLines(ast_nodes[j]) > BlockLines(ast_nodes[i])
          /\ snippet[1].start_line = ast_nodes[i].line_number
          /\ snippet[1].end_line = ast_nodes[i].end_line

\* C17 (as stated): a selected block of more than 300 lines is emitted as
\* the matched line, the 51 lines before it and the 50 lines after it,
\* clipped to the block; a block of at most 300 lines is emitted in full.
C17_Excerpt51 ==
    (extract_pc = "done" /\ snippet[1].extraction_method = "AST") =>
        snippet[1].context =
            IF snippet[1].end_line - snippet[1].start_line + 1 > 300
            THEN Interval(Max(snippet[1].start_line, line_num - 51),
                          Min(snippet[1].end_line, line_num + 50))
            ELSE Interval(snippet[1].start_line, snippet[1].end_line)

\* C17 (amended): a selected block of more than 300 lines is emitted as the
\* matched line, the 50 lines before it and the 50 lines after it, clipped
\* to the block; a block of at most 300 lines is emitted in full.
C17_Excerpt50 ==
    (extract_pc = "done" /\ snippet[1].extraction_method = "AST") =>
        snippet[1].context =
            IF snippet[1].end_line - snippet[1].start_line + 1 > 300
            THEN Interval(Max(snippet[1].start_line, line_num - 50),
                          Min(snippet[1].end_line, line_num + 50))
            ELSE Interval(snippet[1].start_line, snippet[1].end_line)

\* A block of 301 lines was cut to an excerpt that is clipped at the first
\* line of the block and not at its last line.
C17_Witness ==
    /\ extract_pc = "done"
    /\ snippet[1].extraction_method = "AST"
    /\ snippet[1].end_line - snippet[1].start_line + 1 = 301
    /\ snippet[1].block_info = "partial"
    /\ line_num - 50 < snippet[1].start_line
    /\ snippet[1].context[1] = snippet[1].start_line
    /\ snippet[1].context[Len(snippet[1].context)] = line_num + 50

MaxResultFiles == 31

\* The numbers of files with matches tried.
ResultFileCounts == {0, 1, 2, 10, 11, 16, 17, 20, 21, 30, MaxResultFiles}

\* The match lists tried for a file.
MatchCatalogue ==
    {<<>>, <<7>>, <<7, 7>>, <<0, 7>>, <<1, 2, 3>>, <<1, 2, 3, 4, 5>>,
     <<1, 2, 3, 4, 5, 6, 7>>, <<3, 3, 3, 1, 2, 2, 4>>,
     <<1, 2, 1, 2, 1, 2, 3, 4, 5, 6, 7, 8>>}

\* size_config.get(pr_size, size_config['medium'])
SizeConfig(size) ==
    CASE size = "small" -> [max_files_per_item |-> 30, max_matches_per_file |-> 6]
      [] size = "large" -> [max_files_per_item |-> 16, max_matches_per_file |-> 4]
      [] size = "xlarge" -> [max_files_per_item |-> 10, max_matches_per_file |-> 2]
      [] OTHER -> [max_files_per_item |-> 20, max_matches_per_file |-> 4]

\* A filter that keeps every match.
AllMatches(matches, seen_lines) == matches

\* unique_matches: the matches with a line number not in seen_lines, each
\* line number once.
RECURSIVE UniqueMatches(_, _)
UniqueMatches(matches, seen_lines) ==
    IF matches = <<>> THEN <<>>
    ELSE IF Head(matches) # 0 /\ Head(matches) \notin seen_lines
    THEN << Head(matches) >>
             \o UniqueMatches(Tail(matches), seen_lines \cup {Head(matches)})
    ELSE UniqueMatches(Tail(matches), seen_lines)

\* limited_results, in the order of all_results.
LimitedResults(results, config) ==
    [i \in 1..Min(Len(results), config.max_files_per_item) |->
        [file |-> results[i].file,
         matches |-> Slice(UniqueMatches(results[i].matches, {}), 0,
                           config.max_matches_per_file)]]

\* dependencies[item_name], with _simplify_matches for usage_details.
DependencyEntry(limited) ==
    [used_in_files |-> [i \in DOMAIN limited |-> limited[i].file],
     usage_count |-> SumSeq([i \in DOMAIN limited |-> Len(limited[i].matches)]),
     usage_details |->
         [i \in DOMAIN limited |->
             [file |-> limited[i].file, lines |-> Slice(limited[i].matches, 0, 2)]]]

LimitInit ==
    /\ SplitIdle
    /\ SessionIdle
    /\ ExtractIdle
    /\ SearcherIdle
    /\ ServicesIdle
    /\ search_size \in SizeTiers
    /\ \E n \in ResultFileCounts, first \in MatchCatalogue, rest \in MatchCatalogue :
          all_results =
              [i \in 1..n |-> [file |-> i, matches |-> IF i = 1 THEN first ELSE rest]]
    /\ limited_results = <<>>
    /\ dependency_entry = <<>>
    /\ limit_pc = "ready"

LimitResults ==
    /\ limit_pc = "ready"
    /\ limited_results' = LimitedResults(all_results, SizeConfig(search_size))
    /\ dependency_entry' = << DependencyEntry(limited_results') >>
    /\ limit_pc' = "done"
    /\ UNCHANGED <<splitVars, stateVars, historyVars, extractVars, searcherVars,
                   serviceVars, search_size, all_results>>

LimitNext == LimitResults

LimitSpec == LimitInit /\ [][LimitNext]_vars

\* C19: the entry stored for an item lists at most max_files_per_item files
\* and keeps at most max_matches_per_file matches of a file, for the tier of
\* the session (small 30/6, medium 20/4, large 16/4, xlarge 10/2); no line
\* number is kept twice for a file; usage_count is the number of matches
\* kept.
C19_EntryLimits ==
    limit_pc = "done" =>
        LET max_files ==
                CASE search_size = "small" -> 30 [] search_size = "medium" -> 20
                  [] search_size = "large" -> 16 [] search_size = "xlarge" -> 10
            max_matches ==
                CASE search_size = "small" -> 6 [] search_size = "medium" -> 4
                  [] search_size = "large" -> 4 [] search_size = "xlarge" -> 2
            entry == dependency_entry[1]
        IN  /\ Len(entry.used_in_files) <= max_files
            /\ Len(limited_results) = Len(entry.used_in_files)
            /\ \A i \in DOMAIN limited_results :
                  /\ Len(limited_results[i].matches) <= max_matches
                  /\ \A j, k \in DOMAIN limited_results[i].matches :
                        j # k => limited_results[i].matches[j]
                                    # limited_results[i].matches[k]
                  /\ Len(entry.usage_details[i].lines) <= max_matches
            /\ entry.usage_count =
                  Cardinality({<<i, j>> \in (DOMAIN limited_results) \X (1..12) :
                                  j <= Len(limited_results[i].matches)})

\* Eleven files matched on an xlarge change, each on a line found twice and
\* on more than two lines: ten files were kept, with two matches each.
C19_Witness ==
    /\ limit_pc = "done"
    /\ search_size = "xlarge"
    /\ Len(all_results) = 11
    /\ all_results[2].matches = <<3, 3, 3, 1, 2, 2, 4>>
    /\ Len(dependency_entry[1].used_in_files) = 10
    /\ limited_results[2].matches = <<3, 1>>
    /\ dependency_entry[1].usage_count = 20

(***************************************************************************)
(* FastFileSearcher: ripgrep is the engine, the Python scanner the         *)
(* fallback.  A query carries what the ripgrep process does on it (its     *)
(* exit status, a timeout, or a failure to start) and what the scanner     *)
(* does on it (it answers, or re.compile raises).  An answer records the   *)
(* engine whose matches are returned ("empty" is {} from neither) and      *)
(* whether the scanner ran.                                                *)
(***************************************************************************)
\* The largest number of queries in a batch.
MaxPatterns == 2

\* subprocess.run: returncode 0 (found), 1 (nothing found), 2 (error),
\* TimeoutExpired, or another exception (the program is gone).
BackendOutcomes == {"exit_0", "exit_1", "exit_2", "timeout", "not_started"}

ScannerOutcomes == {"answers", "raises"}

Queries == [backend : BackendOutcomes, scanner : ScannerOutcomes]

\* _search_with_python
SearchWithPython(q) ==
    [engine |-> IF q.scanner = "answers" THEN "python" ELSE "raised", scanned |-> TRUE]

\* _search_with_ripgrep
SearchWithRipgrep(q) ==
    IF q.backend \in {"exit_0", "exit_1"}
    THEN [engine |-> "ripgrep", scanned |-> FALSE]
    ELSE IF q.backend = "exit_2"
    THEN [engine |-> "empty", scanned |-> FALSE]
    ELSE SearchWithPython(q)

\* FastFileSearcher.search
Search(available, q) ==
    IF available THEN SearchWithRipgrep(q) ELSE SearchWithPython(q)

\* FastFileSearcher.batch_search: an exception of a query gives {} for it.
BatchSearch(available, qs) ==
    [i \in DOMAIN qs |->
        IF Search(available, qs[i]).engine = "raised"
        THEN [engine |-> "empty", scanned |-> TRUE]
        ELSE Search(available, qs[i])]

SearcherInit ==
    /\ SplitIdle
    /\ SessionIdle
    /\ ExtractIdle
    /\ LimitIdle
    /\ ServicesIdle
    /\ ripgrep_available \in BOOLEAN
    /\ entry_point \in {"search", "batch_search"}
    /\ patterns \in UNION {[1..k -> Queries] :
                              k \in 1..(IF entry_point = "search" THEN 1 ELSE MaxPatterns)}
    /\ search_results = <<>>
    /\ search_pc = "ready"

SearchCall ==
    /\ search_pc = "ready"
    /\ entry_point = "search"
    /\ search_results' = << Search(ripgrep_available, patterns[1]) >>
    /\ search_pc' = "done"
    /\ UNCHANGED <<splitVars, stateVars, historyVars, extractVars, limitVars,
                   serviceVars, ripgrep_available, entry_point, patterns>>

BatchSearchCall ==
    /\ search_pc = "ready"
    /\ entry_point = "batch_search"
    /\ search_results' = BatchSearch(ripgrep_available, patterns)
    /\ search_pc' = "done"
    /\ UNCHANGED <<splitVars, stateVars, historyVars, extractVars, limitVars,
                   serviceVars, ripgrep_available, entry_point, patterns>>

SearcherNext == SearchCall \/ BatchSearchCall

SearcherSpec == SearcherInit /\ [][SearcherNext]_vars

\* C20: search and batch_search run the in-process scanner on a query
\* whenever ripgrep is absent, times out on the query or fails on it, a
\* process that ends with an error status included.
C20_ScannerFallback ==
    search_pc = "done" =>
        \A i \in DOMAIN patterns :
            (\/ ~ripgrep_available
             \/ patterns[i].backend \in {"not_started", "timeout", "exit_2"})
            => search_results[i].scanned

(***************************************************************************)
(* The threads of batch_search.  With ripgrep the queries are submitted to *)
(* a pool of min(4, len(patterns)) workers that run _search_with_ripgrep,  *)
(* and the caller stores each answer under its pattern_key as the futures  *)
(* complete; without ripgrep the caller runs _search_with_python on the    *)
(* queries one after another.  The run of the ripgrep process is one step; *)
(* a run of the scanner begins in one step and ends in another.  What the  *)
(* engines do on a query is fixed by the query, so two queries with one    *)
(* pattern_key fare alike.                                                 *)
(***************************************************************************)
\* The largest number of queries in a batch run on threads.
MaxDispatched == 3

\* ThreadPoolExecutor(max_workers=min(4, len(patterns)))
pool_max_workers == 4

PatternKeys == {"p1", "p2"}

\* The batches: every query with its pattern_key.
KeyedBatches ==
    {b \in UNION {[1..k -> [key : PatternKeys, backend : BackendOutcomes,
                            scanner : ScannerOutcomes]] : k \in 1..MaxDispatched} :
        \A i, j \in DOMAIN b :
            b[i].key = b[j].key =>
                b[i].backend = b[j].backend /\ b[i].scanner = b[j].scanner}

\* A key shared by all queries.
SharedKey(q) == "p1"

\* pattern_key = f"{regex}|{file_pattern}"
PatternKey(q) == q.key

\* The futures whose thread is inside _search_with_python.
Scanning == {i \in DOMAIN futures : futures[i].pc = "scanning"}

PoolInit ==
    /\ SplitIdle
    /\ SessionIdle
    /\ ExtractIdle
    /\ LimitIdle
    /\ ripgrep_available \in BOOLEAN
    /\ entry_point = "batch_search"
    /\ patterns \in KeyedBatches
    /\ search_results = <<>>
    /\ search_pc = "idle"
    /\ futures = [i \in DOMAIN patterns |-> [pc |-> "queued", answer |-> <<>>]]
    /\ batch_results = [k \in PatternKeys |-> <<>>]
    /\ pool_pc = "running"
    /\ CacheIdle
    /\ UnitsIdle
    /\ LookupIdle
    /\ ManagerIdle

\* A worker takes a query and runs the ripgrep process: the process ends
\* with a return code, or the worker enters _search_with_python from an
\* except branch.
PoolRunRipgrep(i) ==
    /\ pool_pc = "running" /\ ripgrep_available
    /\ futures[i].pc = "queued"
    /\ Cardinality(Scanning) < Min(pool_max_workers, Len(patterns))
    /\ futures' =
          [futures EXCEPT ![i] =
              IF SearchWithRipgrep(patterns[i]).scanned
              THEN [pc |-> "scanning", answer |-> <<>>]
              ELSE [pc |-> "returned", answer |-> << SearchWithRipgrep(patterns[i]) >>]]
    /\ UNCHANGED <<batch_results, pool_pc>>

\* _search_with_python returns or raises in a worker.
PoolScanReturn(i) ==
    /\ pool_pc = "running" /\ ripgrep_available
    /\ futures[i].pc = "scanning"
    /\ futures' = [futures EXCEPT ![i] =
                      [pc |-> "returned", answer |-> << SearchWithPython(patterns[i]) >>]]
    /\ UNCHANGED <<batch_results, pool_pc>>

\* A store that keeps what the future gave, an exception included.
StoredAsReturned(answer) == answer

\* The value stored for a future: results[pattern_key] = future.result(),
\* or {} when it raises.
StoredAnswer(answer) ==
    IF answer.engine = "raised" THEN [engine |-> "empty", scanned |-> answer.scanned]
    ELSE answer

\* for future in as_completed(future_to_pattern)
PoolCollect(i) ==
    /\ pool_pc = "running" /\ ripgrep_available
    /\ futures[i].pc = "returned"
    /\ batch_results' = [batch_results EXCEPT ![PatternKey(patterns[i])] =
                            << StoredAnswer(futures[i].answer[1]) >>]
    /\ futures' = [futures EXCEPT ![i].pc = "collected"]
    /\ UNCHANGED pool_pc

\* Without ripgrep: the caller enters _search_with_python for the next query.
SequentialScan(i) ==
    /\ pool_pc = "running" /\ ~ripgrep_available
    /\ futures[i].pc = "queued"
    /\ \A j \in 1..(i - 1) : futures[j].pc = "collected"
    /\ futures' = [futures EXCEPT ![i].pc = "scanning"]
    /\ UNCHANGED <<batch_results, pool_pc>>

\* Without ripgrep: the scanner returns or raises and the answer is stored.
SequentialStore(i) ==
    /\ pool_pc = "running" /\ ~ripgrep_available
    /\ futures[i].pc = "scanning"
    /\ batch_results' = [batch_results EXCEPT ![PatternKey(patterns[i])] =
                            << StoredAnswer(SearchWithPython(patterns[i])) >>]
    /\ futures' = [futures EXCEPT ![i] =
                      [pc |-> "collected", answer |-> << SearchWithPython(patterns[i]) >>]]
    /\ UNCHANGED pool_pc

\* return results
PoolReturn ==
    /\ pool_pc = "running"
    /\ \A i \in DOMAIN futures : futures[i].pc = "collected"
    /\ pool_pc' = "returned"
    /\ UNCHANGED <<futures, batch_results>>

PoolNext ==
    /\ \/ \E i \in DOMAIN futures : PoolRunRipgrep(i)
       \/ \E i \in DOMAIN futures : PoolScanReturn(i)
       \/ \E i \in DOMAIN futures : PoolCollect(i)
       \/ \E i \in DOMAIN futures : SequentialScan(i)
       \/ \E i \in DOMAIN futures : SequentialStore(i)
       \/ PoolReturn
    /\ UNCHANGED <<splitVars, stateVars, historyVars, extractVars, limitVars,
                   searcherVars, cacheVars, unitVars, lookupVars, managerVars>>

PoolSpec == PoolInit /\ [][PoolNext]_vars

\* C21: in every execution of batch_search at most one thread is inside
\* _search_with_python (and so reads and writes file_cache) at a time, also
\* when ripgrep is available and queries time out or raise in the workers.
C21_ScannerSequential == Cardinality(Scanning) <= 1

MaxFilesRead == 103

\* self.cache_max_size = 100
cache_max_size == 100

\* A file that open() fails on.
UnreadableFile == MaxFilesRead + 1

\* The versions the files on disk go through.
DiskVersions == 0..1

\* The files in the cache.
CachedFiles(cache) == {cache[i].file : i \in DOMAIN cache}

\* self.file_cache[filepath]
CachedContent(cache, filepath) ==
    cache[CHOOSE i \in DOMAIN cache : cache[i].file = filepath].content

\* A cache that drops the entry inserted last.
EvictLatest(cache) ==
    IF Len(cache) >= cache_max_size THEN SubSeq(cache, 1, Len(cache) - 1) ELSE cache

\* if len(self.file_cache) >= self.cache_max_size: del the first key
EvictFirst(cache) ==
    IF Len(cache) >= cache_max_size THEN Tail(cache) ELSE cache

\* FastFileSearcher._get_file_content: the cache and the value returned.
GetFileContent(cache, filepath, on_disk) ==
    IF filepath \in CachedFiles(cache)
    THEN [cache |-> cache, lines |-> << CachedContent(cache, filepath) >>]
    ELSE IF filepath = UnreadableFile
    THEN [cache |-> cache, lines |-> <<>>]
    ELSE [cache |-> Append(EvictFirst(cache), [file |-> filepath, content |-> on_disk]),
          lines |-> << on_disk >>]

\* The files the calls ask for: the unreadable file, the files cached first
\* and last, and a file never read before.
FilesAsked ==
    {UnreadableFile}
        \cup (IF file_cache = <<>> THEN {}
              ELSE {file_cache[1].file, file_cache[Len(file_cache)].file})
        \cup (IF files_read < MaxFilesRead THEN {files_read + 1} ELSE {})

CacheInit ==
    /\ SplitIdle
    /\ SessionIdle
    /\ ExtractIdle
    /\ LimitIdle
    /\ SearcherIdle
    /\ PoolIdle
    /\ UnitsIdle
    /\ LookupIdle
    /\ ManagerIdle
    /\ file_cache = <<>>
    /\ disk_version = 0
    /\ files_read = 0
    /\ file_content = <<>>

\* One call of _get_file_content.
GetFileContentCall ==
    /\ \E filepath \in FilesAsked :
          \E r \in {GetFileContent(file_cache, filepath, disk_version)} :
              /\ file_cache' = r.cache
              /\ file_content' = r.lines
              /\ files_read' = IF filepath = files_read + 1 THEN filepath ELSE files_read
    /\ UNCHANGED <<splitVars, stateVars, historyVars, extractVars, limitVars,
                   searcherVars, poolVars, unitVars, lookupVars, managerVars, disk_version>>

\* The files on disk are rewritten.
DiskWrite ==
    /\ disk_version + 1 \in DiskVersions
    /\ disk_version' = disk_version + 1
    /\ UNCHANGED <<splitVars, stateVars, historyVars, extractVars, limitVars,
                   searcherVars, poolVars, unitVars, lookupVars, managerVars, file_cache,
                   files_read, file_content>>

CacheNext == GetFileContentCall \/ DiskWrite

CacheSpec == CacheInit /\ [][CacheNext]_vars

\* C22: after any sequence of _get_file_content calls file_cache holds at
\* most cache_max_size files; a call that inserts into a full cache evicts
\* the file inserted earliest, whether or not that file was hit since; and
\* the content stored for a file does not change while it stays cached.
C22_FifoCache ==
    [][
        /\ Len(file_cache') <= cache_max_size
        /\ \A f \in CachedFiles(file_cache) \ CachedFiles(file_cache') :
              /\ Len(file_cache) = cache_max_size
              /\ \A g \in CachedFiles(file_cache) : f <= g
        /\ \A f \in CachedFiles(file_cache) \cap CachedFiles(file_cache') :
              CachedContent(file_cache', f) = CachedContent(file_cache, f)
    ]_vars

\* The cache is full, files were evicted, the oldest cached file was just
\* hit, and it is returned from the cache with content the disk no longer has.
C22_Witness ==
    /\ Len(file_cache) = cache_max_size
    /\ file_cache[1].file > 1
    /\ file_content = << file_cache[1].content >>
    /\ file_cache[1].content # disk_version

(***************************************************************************)
(* Properties of the packing of the single files.                          *)
(***************************************************************************)
\* The files of no dependency group, in the order of file_paths.
SingletonFiles ==
    SelectSeq(file_paths, LAMBDA f :
        \A g \in DOMAIN dependency_groups : f \notin Range(dependency_groups[g]))

\* The units that are not dependency groups, in the order returned.
SingletonUnits == SelectSeq(sub_prs, LAMBDA u : ~u.is_dependency_group)

PathIndex(f) == CHOOSE i \in DOMAIN file_paths : file_paths[i] = f

\* g comes before f when the files are sorted by descending size, files of
\* one size keeping the order of file_paths.
TakenBefore(g, f) ==
    \/ DiffBytes(file_diffs, g) > DiffBytes(file_diffs, f)
    \/ DiffBytes(file_diffs, g) = DiffBytes(file_diffs, f) /\ PathIndex(g) < PathIndex(f)

\* The bytes a unit held when file f was placed.
BytesWhenPlaced(unit, f) ==
    GroupBytes(SelectSeq(unit.files, LAMBDA g : TakenBefore(g, f)), file_diffs)

\* C24: the single files whose sizes sum to at most the target form one
\* unit; otherwise they are taken by descending size and each goes to the
\* first open unit in which it fits under the target, else to a new unit;
\* every unit of single files holds one file or at most the target.
C24_FirstFitDecreasing ==
    split_pc = "done" /\ strategy = "dependency_groups" =>
        \A units \in {SingletonUnits} :
            /\ Range(Flatten([i \in DOMAIN units |-> units[i].files]))
                   = Range(SingletonFiles)
            /\ Len(Flatten([i \in DOMAIN units |-> units[i].files]))
                   = Len(SingletonFiles)
            /\ GroupBytes(SingletonFiles, file_diffs) <= target_diff_size
                   /\ SingletonFiles # <<>>
                   => units = << IndependentUnit(SingletonFiles, file_diffs,
                                     GroupBytes(SingletonFiles, file_diffs)) >>
            /\ GroupBytes(SingletonFiles, file_diffs) > target_diff_size =>
                   \A j \in DOMAIN units :
                       /\ \A a, b \in DOMAIN units[j].files :
                              a < b => TakenBefore(units[j].files[a], units[j].files[b])
                       /\ \A a \in DOMAIN units[j].files :
                              /\ a > 1 =>
                                    BytesWhenPlaced(units[j], units[j].files[a])
                                        + DiffBytes(file_diffs, units[j].files[a])
                                            <= target_diff_size
                              /\ \A i \in 1..(j - 1) :
                                    BytesWhenPlaced(units[i], units[j].files[a])
                                        + DiffBytes(file_diffs, units[j].files[a])
                                            > target_diff_size
            /\ \A j \in DOMAIN units :
                   \/ Len(units[j].files) = 1
                   \/ GroupBytes(units[j].files, file_diffs) <= target_diff_size

\* The single files exceed the target together; two units were opened and a
\* smaller file joined the first although it fits in the second as well.
C24_Witness ==
    /\ split_pc = "done" /\ strategy = "dependency_groups"
    /\ GroupBytes(SingletonFiles, file_diffs) > target_diff_size
    /\ Len(SingletonUnits) >= 2
    /\ Len(SingletonUnits[1].files) >= 2
    /\ \E f \in Range(SingletonUnits[1].files) :
          GroupBytes(SingletonUnits[2].files, file_diffs) + DiffBytes(file_diffs, f)
              <= target_diff_size

(***************************************************************************)
(* Properties of the cascade of strategies.                                *)
(***************************************************************************)
\* The groups of step 0: the dependency groups and every other file alone.
StepZeroGroups == Len(dependency_groups) + Len(SingletonFiles)

DependencyMark(unit) ==
    IF "is_dependency_group" \in DOMAIN unit THEN << unit.is_dependency_group >> ELSE <<>>

\* The change is two files: the first deletes the declaration of function f
\* and the added line of the second calls f.
ScenarioDeletedFunctionCalled ==
    /\ Len(file_paths) = 2
    /\ file_diffs[file_paths[1]] = << DelDef("f", "function") >>
    /\ file_diffs[file_paths[2]] = << AddUse("f") >>

\* The change is one file whose diff has only added lines.
ScenarioSingleFileAddsOnly ==
    /\ Len(file_paths) = 1
    /\ file_diffs[file_paths[1]] \in
          { << AddUse("f") >>, << AddDef("g", "class"), AddUse("f") >> }

\* C26: for the two-file change in which the second file calls a function
\* whose declaration the first deletes, the partitioner returns one unit
\* with both files, marked is_dependency_group = true; for a single file
\* with only added lines it returns one unit with that file, marked
\* is_dependency_group = false.
C26_Scenarios ==
    split_pc = "done" =>
        /\ ScenarioDeletedFunctionCalled =>
              /\ Len(sub_prs) = 1
              /\ sub_prs[1].files = file_paths
              /\ DependencyMark(sub_prs[1]) = << TRUE >>
        /\ ScenarioSingleFileAddsOnly =>
              /\ Len(sub_prs) = 1
              /\ sub_prs[1].files = file_paths
              /\ DependencyMark(sub_prs[1]) = << FALSE >>

\* C28: the units do not depend on the order in which the sets of the
\* dependency analysis are iterated, and so not on the order of the unions:
\* every order gives the units of the run, in the same order and with the
\* same order of files in each.
C28_Deterministic ==
    split_pc = "done" =>
        \A ord \in SetOrders(Len(file_paths)) :
            \A r \in {SplitPrByModules(file_paths, file_diffs, ord)} :
                /\ r.units = sub_prs
                /\ r.found = dependency_groups
                /\ r.strategy = strategy

\* Two iteration orders make the unions in different orders and leave
\* different roots, and the change has two dependency groups.
C28_Witness ==
    /\ split_pc = "done"
    /\ Len(dependency_groups) >= 2
    /\ \E o1, o2 \in SetOrders(Len(file_paths)) :
          \A fdefs \in {FileDefinitions(file_paths, file_diffs)} :
              \A parent0 \in {[f \in Range(file_paths) |-> f]} :
                  \E f \in Range(file_paths) :
                      FindRoot(UnionAll(parent0,
                                   UnionCalls(1, file_paths, fdefs, file_diffs, o1)), f)
                        # FindRoot(UnionAll(parent0,
                                   UnionCalls(1, file_paths, fdefs, file_diffs, o2)), f)

(***************************************************************************)
(* sub_pr_processor_node: one session of the subgraph per unit, in the     *)
(* order of sub_prs.  subgraph.ainvoke gets a new mapping for every unit;  *)
(* the keys it does not hold are read by the nodes with their defaults.    *)
(***************************************************************************)
\* The largest number of units in the list.
MaxUnits == 2

\* The largest max_iterations configured for the sessions of the units.
MaxUnitIterations == 1

\* The units of a partition, as far as the sessions read them.
\* len(sub_pr_files) of the units tried: within the small tier, and beyond
\* the large one.
UnitFileCounts == {1, 60}

UnitLists ==
    UNION {[1..k -> [diff : {"", "diff"}, files_count : UnitFileCounts]] : k \in 0..MaxUnits}

\* _get_pr_size_thresholds: the default thresholds of the tiers.
SizeThresholds(size) ==
    CASE size = "small" -> [files |-> 5, lines |-> 200, diff_size |-> 10000]
      [] size = "medium" -> [files |-> 20, lines |-> 1000, diff_size |-> 50000]
      [] size = "large" -> [files |-> 50, lines |-> 3000, diff_size |-> 150000]

\* calculate_pr_size: the first tier whose three thresholds hold, else xlarge.
CalculatePrSize(files_count, lines_changed, diff_size) ==
    LET fits(size) == /\ files_count <= SizeThresholds(size).files
                      /\ lines_changed <= SizeThresholds(size).lines
                      /\ diff_size <= SizeThresholds(size).diff_size
    IN  IF fits("small") THEN "small"
        ELSE IF fits("medium") THEN "medium"
        ELSE IF fits("large") THEN "large"
        ELSE "xlarge"

\* pr_stats of subgraph_input: one changed line and four characters for the
\* diff "diff", none for the empty diff.
UnitStats(unit) ==
    [files_count |-> unit.files_count,
     lines_changed |-> IF unit.diff = "" THEN 0 ELSE 1,
     diff_size |-> IF unit.diff = "" THEN 0 ELSE 4]

\* A size tier worked out for the unit, as it is for the whole change.
UnitSizeMeasured(unit) ==
    CalculatePrSize(UnitStats(unit).files_count, UnitStats(unit).lines_changed,
                    UnitStats(unit).diff_size)

\* "pr_size": "small" of subgraph_input.
UnitSize(unit) == "small"

\* The keys of a session that a session of the subgraph fills.
SessionKeys(count, chain, collected, cache) ==
    [iteration_count |-> count, impact_chain |-> chain,
     all_collected_context |-> collected, ast_cache |-> cache]

\* An input that hands the keys of the previous session on to the next.
SubgraphInputCarriedOver(previous) == previous

\* subgraph_input holds none of the keys: the nodes read their defaults.
SubgraphInput(previous) ==
    SessionKeys(0, <<>>, [n \in SymbolNames |-> <<>>], {})

\* sub_pr_result of a session that returned, or of one that raised.
SubPrResult ==
    IF node = "raised"
    THEN [unit |-> unit_index, final_decision |-> "error",
          all_collected_context |-> [n \in SymbolNames |-> <<>>],
          impact_chain |-> <<>>]
    ELSE [unit |-> unit_index,
          final_decision |-> IF final_decision = "none" THEN "unknown" ELSE final_decision,
          all_collected_context |-> all_collected_context,
          impact_chain |-> impact_chain]

UnitsInit ==
    /\ file_paths = <<>> /\ file_diffs = <<>> /\ dependency_groups = <<>>
    /\ sub_prs \in UnitLists
    /\ strategy = "none" /\ split_pc = "idle"
    /\ pr_diff = "" /\ pr_size \in {"small", "xlarge"}
    /\ cfg_max_iterations \in 0..MaxUnitIterations
    /\ node = "idle" /\ current_stage = "sub_pr_review"
    /\ code_check_passed = FALSE /\ changed_files = {}
    /\ iteration_count = 0 /\ impact_chain = <<>>
    /\ context_request = <<>> /\ context_response = <<>>
    /\ all_collected_context = [n \in SymbolNames |-> <<>>]
    /\ analysis_conclusion = <<>>
    /\ ast_cache = {} /\ final_decision = "none"
    /\ oracle_result = <<>> /\ oracle_calls = 0 /\ seedings = 0
    /\ gatherings = 0 /\ search_log = <<>>
    /\ parsed_files = {} /\ reparsed = {}
    /\ ExtractIdle /\ LimitIdle /\ SearcherIdle /\ PoolIdle /\ CacheIdle /\ LookupIdle
    /\ ManagerIdle
    /\ unit_index = 0
    /\ sub_pr_results = <<>>
    /\ units_pc = "between"

\* result = await subgraph.ainvoke(subgraph_input) begins for the next unit.
StartSession ==
    /\ units_pc = "between"
    /\ unit_index < Len(sub_prs)
    /\ unit_index' = unit_index + 1
    /\ units_pc' = "in_session"
    /\ pr_diff' = sub_prs[unit_index + 1].diff
    /\ pr_size' = UnitSize(sub_prs[unit_index + 1])
    /\ node' = "git_review"
    /\ current_stage' = "code_analysis"
    /\ code_check_passed' = FALSE /\ changed_files' = {}
    /\ \E input \in {SubgraphInput(SessionKeys(iteration_count, impact_chain,
                                               all_collected_context, ast_cache))} :
          /\ iteration_count' = input.iteration_count
          /\ impact_chain' = input.impact_chain
          /\ all_collected_context' = input.all_collected_context
          /\ ast_cache' = input.ast_cache
    /\ context_request' = <<>> /\ context_response' = <<>>
    /\ analysis_conclusion' = <<>>
    /\ final_decision' = "none"
    /\ oracle_result' = <<>> /\ oracle_calls' = 0 /\ seedings' = 0
    /\ gatherings' = 0 /\ search_log' = <<>>
    /\ parsed_files' = {} /\ reparsed' = {}
    /\ UNCHANGED <<splitVars, cfg_max_iterations, extractVars, limitVars, searcherVars,
                   poolVars, cacheVars, lookupVars, managerVars, sub_pr_results>>

\* A node of the session of the current unit runs.
UnitSessionStep ==
    /\ units_pc = "in_session"
    /\ SessionNext

\* A loop that an exception of a session leaves.
LoopLeftOnException(ended) == IF ended = "raised" THEN "returned" ELSE "between"

\* The try block is inside the loop: after either append the loop goes on.
LoopAfterSession(ended) == "between"

\* The session ended or raised: sub_pr_results.append(...)
CollectResult ==
    /\ units_pc = "in_session"
    /\ node \in {"END", "raised"}
    /\ sub_pr_results' = Append(sub_pr_results, SubPrResult)
    /\ units_pc' = LoopAfterSession(node)
    /\ UNCHANGED <<splitVars, stateVars, historyVars, extractVars, limitVars,
                   searcherVars, poolVars, cacheVars, lookupVars, managerVars, unit_index>>

\* return {"sub_pr_results": sub_pr_results, "current_stage": "aggregation"}
ReturnResults ==
    /\ units_pc = "between"
    /\ unit_index = Len(sub_prs)
    /\ units_pc' = "returned"
    /\ UNCHANGED <<splitVars, stateVars, historyVars, extractVars, limitVars,
                   searcherVars, poolVars, cacheVars, lookupVars, managerVars, unit_index,
                   sub_pr_results>>

UnitsNext == StartSession \/ UnitSessionStep \/ CollectResult \/ ReturnResults

UnitsSpec == UnitsInit /\ [][UnitsNext]_vars

\* C27: the session of a unit starts with iteration_count 0 and with empty
\* impact_chain, all_collected_context and ast_cache, whatever the sessions
\* of the earlier units left; the sessions run one after another in the
\* order of the units, each starting when the result of the one before has
\* been collected.
C27_IndependentSessions ==
    /\ [](units_pc = "in_session" => Len(sub_pr_results) = unit_index - 1)
    /\ [](units_pc \in {"between", "returned"} => Len(sub_pr_results) = unit_index)
    /\ [][
          units_pc' = "in_session" /\ units_pc # "in_session" =>
              /\ unit_index' = unit_index + 1
              /\ pr_diff' = sub_prs[unit_index'].diff
              /\ iteration_count' = 0
              /\ impact_chain' = <<>>
              /\ all_collected_context' = [n \in SymbolNames |-> <<>>]
              /\ ast_cache' = {}
       ]_vars

\* The session of the second unit has started afresh after the session of
\* the first collected context in a round of gathering.
C27_Witness ==
    /\ units_pc = "in_session"
    /\ unit_index = 2
    /\ node = "git_review"
    /\ sub_pr_results[1].impact_chain # <<>>
    /\ \E n \in SymbolNames : sub_pr_results[1].all_collected_context[n] # <<>>
    /\ iteration_count = 0

\* C30: for every configured max_iterations the ceilings of the tiers are
\* ordered small >= medium >= large >= xlarge: once code_analyzer_node has
\* derived the ceiling of a session, a smaller tier would not have got
\* fewer rounds than a larger one.
C30_CeilingsOrdered ==
    seedings > 0 =>
        /\ MaxIterationsFor("small", cfg_max_iterations)
              >= MaxIterationsFor("medium", cfg_max_iterations)
        /\ MaxIterationsFor("medium", cfg_max_iterations)
              >= MaxIterationsFor("large", cfg_max_iterations)
        /\ MaxIterationsFor("large", cfg_max_iterations)
              >= MaxIterationsFor("xlarge", cfg_max_iterations)

\* C29: whenever context_collector_node starts, impact_chain has
\* iteration_count entries and their iteration fields are 1, 2, ...,
\* iteration_count in order; a step that issues a request appends exactly
\* one entry and raises iteration_count by 1, and no other step changes
\* impact_chain.
C29_ChainMatchesCount ==
    /\ [](node = "context_collector" =>
            /\ Len(impact_chain) = iteration_count
            /\ \A i \in DOMAIN impact_chain : impact_chain[i].iteration = i)
    /\ [][
          /\ node' = "context_collector" /\ node = "code_analyzer" =>
                /\ Len(impact_chain') = Len(impact_chain) + 1
                /\ SubSeq(impact_chain', 1, Len(impact_chain)) = impact_chain
                /\ iteration_count' = iteration_count + 1
          /\ ~(node' = "context_collector" /\ node = "code_analyzer") =>
                impact_chain' = impact_chain
       ]_vars

\* context_collector_node is about to run for the second request of a
\* session: the chain has the entries of rounds 1 and 2.
C29_Witness ==
    /\ node = "context_collector"
    /\ iteration_count = 2
    /\ Len(impact_chain) = 2
    /\ context_request # <<>>

(***************************************************************************)
(* decision_node on the conclusions a session can hand to it: none, the    *)
(* conclusions code_analyzer_node builds itself, and conclusions of the    *)
(* Oracle with every combination of the flag and the list of issues.       *)
(***************************************************************************)
IssueLists ==
    { <<>>, << "" >>, << " " >>, << "issue" >>, << "", "issue" >> }

DecidedConclusions ==
    { <<>>,
      << ParseFailureConclusion >>, << NoSearchItemsConclusion >>,
      << BadSearchItemsConclusion >>, << UnknownActionConclusion >> }
        \cup { << DepthLimitConclusion(c, <<>>) >> : c \in 0..MaxConfigIterations }
        \cup { << OracleConclusion(ConclusionDoc(h, issues), c, <<>>) >> :
                  h \in BOOLEAN, issues \in IssueLists, c \in 0..1 }

DecisionInit ==
    /\ SplitIdle
    /\ HelpersIdle
    /\ pr_diff = "diff"
    /\ pr_size = "small"
    /\ cfg_max_iterations = default_max_iterations
    /\ node = "decision"
    /\ current_stage = "analysis_complete"
    /\ code_check_passed \in BOOLEAN
    /\ changed_files = PrFiles
    /\ iteration_count = 0 /\ impact_chain = <<>>
    /\ context_request = <<>> /\ context_response = <<>>
    /\ all_collected_context = [n \in SymbolNames |-> <<>>]
    /\ analysis_conclusion \in DecidedConclusions
    /\ ast_cache = {} /\ final_decision = "none"
    /\ oracle_result = <<>> /\ oracle_calls = 0 /\ seedings = 0
    /\ gatherings = 0 /\ search_log = <<>>
    /\ parsed_files = {} /\ reparsed = {}

DecisionNext == Decision

DecisionSpec == DecisionInit /\ [][DecisionNext]_vars

\* The conclusion names a critical issue: the flag is set or the list holds
\* an issue that is not blank.
NamesCriticalIssue(c) ==
    /\ c # <<>>
    /\ \/ c[1].has_critical_issues
       \/ \E i \in DOMAIN c[1].critical_issues :
             c[1].critical_issues[i] \notin BlankIssues

\* C31: decision_node returns approve exactly when the code-rule check
\* passed and the conclusion neither has the flag has_critical_issues nor
\* lists an issue that is not blank, and reject otherwise; a conclusion
\* built by code_analyzer_node itself (at the ceiling, on a degenerate
\* request, on a response that cannot be parsed) never makes it reject when
\* the code-rule check passed.
C31_DecisionRule ==
    node = "END" /\ final_decision # "none" =>
        /\ final_decision \in {"approve", "reject"}
        /\ final_decision = "approve"
              <=> code_check_passed /\ ~NamesCriticalIssue(analysis_conclusion)
        /\ analysis_conclusion # <<>> /\ analysis_conclusion[1].potential_risks # <<>>
              /\ code_check_passed
              => final_decision = "approve"

\* The flag is not set, the list holds an issue, the code-rule check passed,
\* and the decision is reject.
C31_Witness ==
    /\ node = "END"
    /\ code_check_passed
    /\ analysis_conclusion # <<>>
    /\ ~analysis_conclusion[1].has_critical_issues
    /\ analysis_conclusion[1].critical_issues = << "", "issue" >>
    /\ final_decision = "reject"

\* The query ends without an answer of either engine: ripgrep exits with an
\* error status, or the scanner that runs in its place raises.
QueryFails(available, q) ==
    \/ available /\ q.backend = "exit_2"
    \/ (~available \/ q.backend \in {"timeout", "not_started"}) /\ q.scanner = "raises"

C33_FailureRecorded ==
    /\ [](units_pc = "returned" =>
            /\ Len(sub_pr_results) = Len(sub_prs)
            /\ \A i \in DOMAIN sub_pr_results : sub_pr_results[i].unit = i)
    /\ [][
          sub_pr_results' # sub_pr_results =>
              /\ Len(sub_pr_results') = Len(sub_pr_results) + 1
              /\ SubSeq(sub_pr_results', 1, Len(sub_pr_results)) = sub_pr_results
              /\ sub_pr_results'[Len(sub_pr_results')].unit = unit_index
              /\ node = "raised"
                    <=> sub_pr_results'[Len(sub_pr_results')].final_decision = "error"
       ]_vars

\* The session of the first unit raised, the session of the second ran to
\* its decision, and the node has returned both entries.
C33_Witness ==
    /\ units_pc = "returned"
    /\ Len(sub_pr_results) = 2
    /\ sub_pr_results[1].final_decision = "error"
    /\ sub_pr_results[2].final_decision \in {"approve", "reject"}

(***************************************************************************)
(* _find_enclosing_function: the lines of the file are numbered from 1,    *)
(* lines[i] is line i + 1, and a declaration is named after its line.      *)
(***************************************************************************)
\* The last line a match is looked up on.
MaxLookupLine == 100

\* range(line_num - 1, max(0, line_num - 50), -1)
lookup_span == 50

\* The matched lines and the lines that may hold a def or a class.
LookupLines == {1, 2, 5, lookup_span, lookup_span + 1, MaxLookupLine}

DeclarationLines == {1, 2, lookup_span, lookup_span + 1, lookup_span + 2,
                     MaxLookupLine - 1}

Unknown == [found |-> FALSE, line |-> 0]

\* The lines looked at: the indices line_num - 1 down to
\* max(0, line_num - 50) + 1, the stop of the range being excluded.
ScannedLines(match_line) ==
    (Max(0, match_line - lookup_span) + 2)..match_line

\* The first declaration met going up from the matched line.
FindEnclosingFunction(declarations, match_line) ==
    LET met == declarations \cap ScannedLines(match_line)
    IN  IF met = {} THEN Unknown
        ELSE [found |-> TRUE, line |-> CHOOSE k \in met : \A m \in met : m <= k]

LookupInit ==
    /\ SplitIdle
    /\ SessionIdle
    /\ ExtractIdle /\ LimitIdle /\ SearcherIdle
    /\ PoolIdle /\ CacheIdle /\ UnitsIdle /\ ManagerIdle
    /\ lookup \in [declarations : SUBSET DeclarationLines, line_num : LookupLines]
    /\ function_name = <<>>

FindEnclosingFunctionCall ==
    /\ function_name = <<>>
    /\ function_name' = << FindEnclosingFunction(lookup.declarations, lookup.line_num) >>
    /\ UNCHANGED <<splitVars, stateVars, historyVars, extractVars, limitVars,
                   searcherVars, poolVars, cacheVars, unitVars, managerVars, lookup>>

LookupNext == FindEnclosingFunctionCall

LookupSpec == LookupInit /\ [][LookupNext]_vars

\* The declarations on the matched line and on the 50 lines above it, down
\* to the first line of the file.
DeclarationsAbove ==
    {k \in lookup.declarations :
        k <= lookup.line_num /\ k >= Max(1, lookup.line_num - lookup_span)}

\* C34: the lookup returns the nearest declaration on the matched line or
\* on one of the up to 50 lines above it, the first line of the file
\* included, and the unknown marker only when none of these lines holds a
\* declaration.
C34_NearestDeclaration ==
    function_name # <<>> =>
        /\ DeclarationsAbove = {} <=> function_name[1] = Unknown
        /\ DeclarationsAbove # {} =>
              /\ function_name[1].line \in DeclarationsAbove
              /\ \A k \in DeclarationsAbove : k <= function_name[1].line

(***************************************************************************)
(* One Gathering phase on its own: context_collector_node runs on a        *)
(* request of the first round, requests that name a symbol in more than    *)
(* one item among them.                                                    *)
(***************************************************************************)
\* Requests in which one name occurs in two items.
RepeatingRequests ==
    { << Item("foo", "function"), Item("foo", "function") >>,
      << Item("foo", "function"), Item("foo", "class") >>,
      << Item("foo", "function"), Item("bar", "class"), Item("foo", "function") >> }

GatheredRequests ==
    RepeatingRequests \cup {SearchItemsOf(d) : d \in NamedRequests}

GatherInit ==
    /\ SplitIdle
    /\ HelpersIdle
    /\ pr_diff = "diff"
    /\ pr_size \in SizeTiers
    /\ cfg_max_iterations = default_max_iterations
    /\ node = "context_collector"
    /\ current_stage = "context_collection"
    /\ code_check_passed \in BOOLEAN
    /\ changed_files = PrFiles
    /\ iteration_count = 1
    /\ \E items \in GatheredRequests :
          /\ impact_chain = UpdatedChain(<<>>, 0, items)
          /\ context_request = << [search_items |-> items] >>
          /\ oracle_result = << RequestDoc(items) >>
    /\ context_response = <<>>
    /\ all_collected_context = [n \in SymbolNames |-> <<>>]
    /\ analysis_conclusion = <<>>
    /\ ast_cache \in {{}, CachedAfterParse(PrFiles)}
    /\ final_decision = "none"
    /\ oracle_calls = 1 /\ seedings = 1
    /\ gatherings = 0 /\ search_log = <<>>
    /\ parsed_files = PrFiles /\ reparsed = {}

GatherNext == ContextCollector

GatherSpec == GatherInit /\ [][GatherNext]_vars

\* C35: in one Gathering phase a name that occurs in more than one item of
\* the request is searched once: no two searches dispatched in the phase
\* are for the same name, and one entry is stored for the name.
C35_SearchedOnce ==
    gatherings > 0 =>
        /\ \A i, j \in DOMAIN search_log :
              i # j => search_log[i].name # search_log[j].name
        /\ \A i \in DOMAIN search_log :
              all_collected_context[search_log[i].name] # <<>>

\* The groups of step 0 that _split_pr_by_modules hands on: the dependency
\* groups found, then the files of no group as singletons.
StepZeroGroupList == AllDependencyGroups(file_paths, dependency_groups)

\* C36: the directory grouping is reached only with at most one group of
\* step 0, it then returns at most one group, and the partitioner goes on to
\* the chunks: no run returns directory-based units.
C36_DirectoryNeverReturned ==
    split_pc = "done" =>
        /\ strategy # "directory"
        /\ strategy # "dependency_groups" => Len(StepZeroGroupList) <= 1
        /\ Len(StepZeroGroupList) <= 1 =>
              /\ Len(GroupDependencyAwareByDirectory(StepZeroGroupList, file_diffs,
                                                     target_diff_size)) <= 1
              /\ strategy = "chunks"

\* The directory grouping was reached with one dependency group whose files
\* lie in more than one directory, and the chunks were returned.
C36_Witness ==
    /\ split_pc = "done"
    /\ Len(StepZeroGroupList) = 1
    /\ Cardinality({TopDir(StepZeroGroupList[1][i]) : i \in DOMAIN StepZeroGroupList[1]}) > 1
    /\ strategy = "chunks"

\* C37: every session that sub_pr_processor_node starts runs with size tier
\* small, and so with the small tier's iteration ceiling (max_iterations
\* itself) and search breadth, whatever the unit's file count, changed
\* lines and diff size, and whatever the tier of the whole change.
C37_SessionsRunSmall ==
    units_pc = "in_session" =>
        /\ pr_size = "small"
        /\ Ceiling = cfg_max_iterations
        /\ SizeConfig(pr_size) = SizeConfig("small")

\* A session runs for a unit of 60 files, which by the thresholds is xlarge.
C37_Witness ==
    /\ units_pc = "in_session"
    /\ UnitSizeMeasured(sub_prs[unit_index]) = "xlarge"
    /\ pr_size = "small"
    /\ node = "code_analyzer"

(***************************************************************************)
(* ConcurrencyManager (utils/concurrency_manager.py), concurrency control  *)
(* enabled.  Threads call submit_task; max_workers Queue_Processor threads *)
(* run process_queue.  A step under stats_lock is one step; the queue's    *)
(* own operations are atomic.                                              *)
(***************************************************************************)
\* The tasks handed to submit_task and the threads that hand them in.
MaxTasks == 3
MaxCallers == 2

\* concurrency.max_workers and concurrency.max_queue_size as configured
\* (the defaults are 4 and 10).
max_workers == 2
max_queue_size == 1

CallerThreads == 1..MaxCallers
ProcessorThreads == 1..max_workers

\* A queue that takes every task.
PutUnbounded(queue, task) == [full |-> FALSE, queue |-> Append(queue, task)]

\* Queue.put_nowait: Full when maxsize > 0 and maxsize items are waiting.
PutNowait(queue, task) ==
    IF max_queue_size > 0 /\ Len(queue) >= max_queue_size
    THEN [full |-> TRUE, queue |-> queue]
    ELSE [full |-> FALSE, queue |-> Append(queue, task)]

\* A thread that an exception of the task ends.
StoppedByTask(raised) == IF raised THEN "stopped" ELSE "processed"

\* Where process_queue goes on when future.result() returned or raised:
\* the statistics of line 83, or straight to the finally block.
AfterResult(raised) == IF raised THEN "finally" ELSE "processed"

ManagerInit ==
    /\ SplitIdle
    /\ SessionIdle
    /\ ExtractIdle /\ LimitIdle /\ SearcherIdle
    /\ PoolIdle /\ CacheIdle /\ UnitsIdle /\ LookupIdle
    /\ task_queue = <<>>
    /\ stats = [total_received |-> 0, total_processed |-> 0, total_rejected |-> 0,
                current_processing |-> 0, current_queued |-> 0]
    /\ callers = [c \in CallerThreads |-> [pc |-> "idle", task |-> 0]]
    /\ processors = [p \in ProcessorThreads |-> [pc |-> "get", task |-> 0]]
    /\ tasks = <<>>

\* submit_task is called with a task that will return or raise: the task id
\* is made and total_received counted.
SubmitBegin(c) ==
    /\ callers[c].pc = "idle"
    /\ Len(tasks) < MaxTasks
    /\ \E raises \in BOOLEAN :
          tasks' = Append(tasks, [raises |-> raises, returned |-> <<>>,
                                  executed |-> 0, by |-> 0])
    /\ stats' = [stats EXCEPT !.total_received = @ + 1]
    /\ callers' = [callers EXCEPT ![c] = [pc |-> "put", task |-> Len(tasks) + 1]]
    /\ UNCHANGED <<task_queue, processors>>

\* self.task_queue.put_nowait((task_func, args, task_id))
SubmitPut(c) ==
    /\ callers[c].pc = "put"
    /\ \E r \in {PutNowait(task_queue, callers[c].task)} :
          /\ task_queue' = r.queue
          /\ callers' = [callers EXCEPT ![c].pc = IF r.full THEN "full" ELSE "queued"]
    /\ UNCHANGED <<stats, processors, tasks>>

\* The task is in the queue: current_queued is counted and True returned.
SubmitQueued(c) ==
    /\ callers[c].pc = "queued"
    /\ stats' = [stats EXCEPT !.current_queued = @ + 1]
    /\ tasks' = [tasks EXCEPT ![callers[c].task].returned = << TRUE >>]
    /\ callers' = [callers EXCEPT ![c] = [pc |-> "idle", task |-> 0]]
    /\ UNCHANGED <<task_queue, processors>>

\* except Full: total_rejected is counted and False returned.
SubmitFull(c) ==
    /\ callers[c].pc = "full"
    /\ stats' = [stats EXCEPT !.total_rejected = @ + 1]
    /\ tasks' = [tasks EXCEPT ![callers[c].task].returned = << FALSE >>]
    /\ callers' = [callers EXCEPT ![c] = [pc |-> "idle", task |-> 0]]
    /\ UNCHANGED <<task_queue, processors>>

\* task_info = self.task_queue.get(): waits while the queue is empty.
ProcessorGet(p) ==
    /\ processors[p].pc = "get"
    /\ task_queue # <<>>
    /\ processors' = [processors EXCEPT ![p] = [pc |-> "taken", task |-> Head(task_queue)]]
    /\ task_queue' = Tail(task_queue)
    /\ UNCHANGED <<stats, callers, tasks>>

\* with self.stats_lock: current_queued -= 1; current_processing += 1
ProcessorCount(p) ==
    /\ processors[p].pc = "taken"
    /\ stats' = [stats EXCEPT !.current_queued = @ - 1, !.current_processing = @ + 1]
    /\ processors' = [processors EXCEPT ![p].pc = "submit"]
    /\ UNCHANGED <<task_queue, callers, tasks>>

\* future = self.executor.submit(task_func, *args): the task starts.
ExecutorSubmit(p) ==
    /\ processors[p].pc = "submit"
    /\ tasks' = [tasks EXCEPT ![processors[p].task].executed = @ + 1,
                              ![processors[p].task].by = p]
    /\ processors' = [processors EXCEPT ![p].pc = "result"]
    /\ UNCHANGED <<task_queue, stats, callers>>

\* future.result(): the task has ended, by returning or by raising.
FutureResult(p) ==
    /\ processors[p].pc = "result"
    /\ processors' = [processors EXCEPT ![p].pc = AfterResult(tasks[processors[p].task].raises)]
    /\ UNCHANGED <<task_queue, stats, callers, tasks>>

\* with self.stats_lock: total_processed += 1
ProcessorProcessed(p) ==
    /\ processors[p].pc = "processed"
    /\ stats' = [stats EXCEPT !.total_processed = @ + 1]
    /\ processors' = [processors EXCEPT ![p].pc = "finally"]
    /\ UNCHANGED <<task_queue, callers, tasks>>

\* finally: current_processing -= 1, task_done(), and the loop goes round.
ProcessorFinally(p) ==
    /\ processors[p].pc = "finally"
    /\ stats' = [stats EXCEPT !.current_processing = @ - 1]
    /\ processors' = [processors EXCEPT ![p] = [pc |-> "get", task |-> 0]]
    /\ UNCHANGED <<task_queue, callers, tasks>>

SubmitTask(c) ==
    \/ SubmitBegin(c)
    \/ SubmitPut(c)
    \/ SubmitQueued(c)
    \/ SubmitFull(c)

ProcessQueue(p) ==
    \/ ProcessorGet(p)
    \/ ProcessorCount(p)
    \/ ExecutorSubmit(p)
    \/ FutureResult(p)
    \/ ProcessorProcessed(p)
    \/ ProcessorFinally(p)

ManagerNext ==
    /\ \/ \E c \in CallerThreads : SubmitTask(c)
       \/ \E p \in ProcessorThreads : ProcessQueue(p)
    /\ UNCHANGED <<splitVars, stateVars, historyVars, extractVars, limitVars,
                   searcherVars, poolVars, cacheVars, unitVars, lookupVars>>

ManagerSpec == ManagerInit /\ [][ManagerNext]_vars

\* The threads are scheduled fairly and every task ends.
FairManagerSpec ==
    /\ ManagerSpec
    /\ \A p \in ProcessorThreads :
          WF_vars(ProcessQueue(p) /\ UNCHANGED <<splitVars, stateVars, historyVars,
                      extractVars, limitVars, searcherVars, poolVars, cacheVars,
                      unitVars, lookupVars>>)

\* The tasks that run in the executor, and the calls of submit_task under way.
RunningTasks == {p \in ProcessorThreads : processors[p].pc = "result"}
CallsInProgress == {c \in CallerThreads : callers[c].pc # "idle"}
RejectingCalls == {c \in CallerThreads : callers[c].pc = "full"}
Rejected == {t \in DOMAIN tasks : tasks[t].returned = << FALSE >>}
Accepted == {t \in DOMAIN tasks : tasks[t].returned = << TRUE >>}

\* C38: at most max_workers tasks run and at most max_queue_size wait; a
\* call of submit_task under way can always take its next step; a task is
\* rejected only on a full queue, is counted in total_rejected when False
\* is returned, and is never queued, taken or executed.
C38_Bounded ==
    /\ [](/\ Cardinality(RunningTasks) <= max_workers
          /\ Len(task_queue) <= max_queue_size
          /\ \A c \in CallsInProgress :
                ENABLED (SubmitPut(c) \/ SubmitQueued(c) \/ SubmitFull(c))
          /\ stats.total_rejected = Cardinality(Rejected)
          /\ \A t \in Rejected \cup {callers[c].task : c \in RejectingCalls} :
                /\ tasks[t].executed = 0
                /\ \A i \in DOMAIN task_queue : task_queue[i] # t
                /\ \A p \in ProcessorThreads : processors[p].task # t)
    /\ [][\A c \in CallerThreads :
             callers[c].pc = "put" /\ callers'[c].pc = "full"
                 => Len(task_queue) = max_queue_size /\ max_queue_size > 0]_vars

\* A task was rejected: the queue is full and a task runs; the rejected task
\* is the last one handed in.
C38_Witness ==
    /\ MaxTasks \in Rejected
    /\ Len(task_queue) = max_queue_size
    /\ RunningTasks # {}
    /\ stats.total_rejected = 1

\* C39: current_queued is never negative and, while no call of submit_task
\* is under way, is the number of tasks waiting in the queue.
C39_QueuedCountExact ==
    /\ stats.current_queued >= 0
    /\ CallsInProgress = {} => stats.current_queued = Len(task_queue)

\* C40: every accepted task is executed, and no task more than once; a
\* processor thread always comes back to take the next task, also after a
\* task that raised, and with every thread back at the queue
\* current_processing is 0.
C40_ExecutedOnce ==
    /\ \A t \in 1..MaxTasks :
          (t \in Accepted) ~> (t \in DOMAIN tasks /\ tasks[t].executed = 1)
    /\ [](\A t \in DOMAIN tasks : tasks[t].executed <= 1)
    /\ \A p \in ProcessorThreads :
          (processors[p].pc # "get") ~> (processors[p].pc = "get")
    /\ []((\A p \in ProcessorThreads : processors[p].pc = "get")
             => stats.current_processing = 0)

\* A task raised, and the thread that ran it has since executed a later task
\* and is back at the queue.
C40_Witness ==
    /\ \E t, u \in Accepted :
          /\ t < u
          /\ tasks[t].raises /\ tasks[t].executed = 1
          /\ tasks[u].executed = 1
          /\ tasks[t].by = tasks[u].by
    /\ \A p \in ProcessorThreads : processors[p].pc = "get"
    /\ stats.current_processing = 0

=============================================================================
